---- MODULE Spec2Model ----
(***************************************************************************)
(* Template classification and parsing of division spreadsheets            *)
(* (services/parser_factory.py, services/base_parser.py and the three      *)
(* template parsers).                                                      *)
(*                                                                         *)
(* Text that the code inspects character by character (cell values, keys,  *)
(* header labels) is a sequence of one-character strings; sheet names and  *)
(* template tags, which the code only compares for equality, are strings.  *)
(***************************************************************************)
EXTENDS Integers, Sequences, FiniteSets, TLC

VARIABLES
    file,           \* the uploaded document (file_content)
    request,        \* arguments of the call: template_type, batch_id, document_id
    pc,             \* position of the caller
    detected,       \* value returned by detect_template_type
    parser_scores,  \* the sorted parser_scores list of detect_template_type
    parser,         \* the parser instance returned by create_parser
    result,         \* the dictionary returned by process_file
    raised,         \* the exception that left the entry point, if any
    store,          \* relative paths of the image files written under uploads/
    uuid_next,      \* number of uuid4 values drawn so far
    returned,       \* the results process_file has handed out: each as it was
                    \* when returned and as its holder reads it now
    batch           \* the ImportBatch row of the upload, and whether the
                    \* database accepts the writes of the background task

vars == <<file, request, pc, detected, parser_scores, parser, result, raised,
          store, uuid_next, returned, batch>>

(***************************************************************************)
(* Bounds                                                                  *)
(***************************************************************************)
MaxExtraSheets == 1
MaxSheets == 2
MaxCorrupt == 1
MaxImages == 2
MaxLen == 3
MaxRows == 2

(***************************************************************************)
(* Values standing for Python's None and for "nothing yet"                 *)
(***************************************************************************)
None == "None"
NoException == "none"
NoParser == [none |-> TRUE]
NoResult == [none |-> TRUE]
NoBatch == [none |-> TRUE]

(***************************************************************************)
(* Template descriptors                                                    *)
(***************************************************************************)
TemplateTypes == {"UIUX", "ENGINEER", "BA"}

_parsers == <<"UIUX", "ENGINEER", "BA">>

get_template_sheets(t) ==
    CASE t = "UIUX" ->
            <<"Design Overview", "Figma Links", "Design Assets",
              "Design Decisions", "Approval">>
      [] t = "ENGINEER" ->
            <<"Project Info", "Tech Stack", "Development Estimate",
              "Architecture Documents", "Infrastructure", "Approval">>
      [] t = "BA" ->
            <<"Product Overview", "User Story", "Acceptance Criteria",
              "Business Value", "BA Approval">>

get_template_priorityEqual(t) == 3

get_template_priority(t) ==
    CASE t = "UIUX" -> 3
      [] t = "ENGINEER" -> 3
      [] t = "BA" -> 1

Range(s) == {s[i] : i \in 1..Len(s)}

(***************************************************************************)
(* Documents.  A readable document is an ordered list of named sheets,     *)
(* each a rectangular grid of cells; `corrupt' holds the sheets whose      *)
(* read_excel call throws.                                                 *)
(***************************************************************************)
ExtraSheetPool == <<"Sheet1", "Notes", "Changelog">>

AllSheetOrder ==
    get_template_sheets("BA") \o
    SelectSeq(get_template_sheets("UIUX"), LAMBDA n : n # "Approval") \o
    get_template_sheets("ENGINEER") \o
    SubSeq(ExtraSheetPool, 1, MaxExtraSheets)

AllSheetNames == Range(AllSheetOrder)

EmptyGrid == << >>

UnreadableFile ==
    [readable |-> FALSE, sheet_names |-> << >>, sheets |-> << >>,
     corrupt |-> {}, images |-> << >>]

SheetsOnlyFile(S) ==
    [readable |-> TRUE,
     sheet_names |-> SelectSeq(AllSheetOrder, LAMBDA n : n \in S),
     sheets |-> [n \in S |-> EmptyGrid],
     corrupt |-> {},
     images |-> << >>]

(***************************************************************************)
(* ParserFactory.detect_template_type                                      *)
(***************************************************************************)
\* matches = len([sheet for sheet in expected_sheets if sheet in sheet_names])
CountMatches(expected_sheets, sheet_names) ==
    Len(SelectSeq(expected_sheets, LAMBDA sheet : sheet \in Range(sheet_names)))

\* score = (matches * priority) / len(expected_sheets), kept as a fraction
ScoreUnweighted(matches, priority, total_expected) ==
    IF total_expected > 0
    THEN [num |-> matches, den |-> total_expected]
    ELSE [num |-> 0, den |-> 1]

Score(matches, priority, total_expected) ==
    IF total_expected > 0
    THEN [num |-> matches * priority, den |-> total_expected]
    ELSE [num |-> 0, den |-> 1]

ScoreLess(a, b) == a.num * b.den < b.num * a.den

ScoreEntry(t, sheet_names) ==
    LET expected_sheets == get_template_sheets(t)
        priority == get_template_priority(t)
        matches == CountMatches(expected_sheets, sheet_names)
    IN [template_type |-> t,
        matches |-> matches,
        total_expected |-> Len(expected_sheets),
        priority |-> priority,
        score |-> Score(matches, priority, Len(expected_sheets))]

\* list.sort(key=score, reverse=True) is stable: an entry goes after every
\* entry already placed whose score is greater than or equal to its own.
InsertByScoreUnstable(sorted, x) ==
    LET before == SelectSeq(sorted, LAMBDA e : ScoreLess(x.score, e.score))
        after == SelectSeq(sorted, LAMBDA e : ~ScoreLess(x.score, e.score))
    IN before \o <<x>> \o after

InsertByScore(sorted, x) ==
    LET before == SelectSeq(sorted, LAMBDA e : ~ScoreLess(e.score, x.score))
        after == SelectSeq(sorted, LAMBDA e : ScoreLess(e.score, x.score))
    IN before \o <<x>> \o after

RECURSIVE SortAscending(_)
SortAscending(entries) ==
    IF entries = << >> THEN << >>
    ELSE LET rest == SortAscending(SubSeq(entries, 1, Len(entries) - 1))
             x == entries[Len(entries)]
         IN SelectSeq(rest, LAMBDA e : ~ScoreLess(x.score, e.score)) \o <<x>>
            \o SelectSeq(rest, LAMBDA e : ScoreLess(x.score, e.score))

RECURSIVE SortByScoreDesc(_)
SortByScoreDesc(entries) ==
    IF entries = << >> THEN << >>
    ELSE InsertByScore(SortByScoreDesc(SubSeq(entries, 1, Len(entries) - 1)),
                       entries[Len(entries)])

ComputeScores(f) ==
    SortByScoreDesc([i \in 1..Len(_parsers) |-> ScoreEntry(_parsers[i], f.sheet_names)])

\* The whole body runs inside try/except Exception: opening an unreadable
\* buffer lands in the handler, which returns "BA".
detect_unreadable_empty(f) == ""

detect_unreadable_first(f) == _parsers[1]

detect_unreadable(f) == "BA"

detect_template_type(f) ==
    IF ~f.readable THEN detect_unreadable(f)
    ELSE ComputeScores(f)[1].template_type

(***************************************************************************)
(* Text                                                                    *)
(***************************************************************************)
UpperChars == <<"A","B","C","D","E","F","G","H","I","J","K","L","M",
                "N","O","P","Q","R","S","T","U","V","W","X","Y","Z">>
LowerChars == <<"a","b","c","d","e","f","g","h","i","j","k","l","m",
                "n","o","p","q","r","s","t","u","v","w","x","y","z">>
DigitChars == <<"0","1","2","3","4","5","6","7","8","9">>
Whitespace == {" ", "\t", "\n"}

\* str.lower() and str.upper(), one character
LowerChar(c) ==
    IF c \in Range(UpperChars)
    THEN LowerChars[CHOOSE i \in 1..26 : UpperChars[i] = c]
    ELSE c

UpperChar(c) ==
    IF c \in Range(LowerChars)
    THEN UpperChars[CHOOSE i \in 1..26 : LowerChars[i] = c]
    ELSE c

Lower(s) == [i \in 1..Len(s) |-> LowerChar(s[i])]
Upper(s) == [i \in 1..Len(s) |-> UpperChar(s[i])]

\* str.replace(c, w) for a one-character c; w is a text, possibly empty
RECURSIVE Replace(_, _, _)
Replace(s, c, w) ==
    IF s = << >> THEN << >>
    ELSE (IF s[1] = c THEN w ELSE <<s[1]>>) \o Replace(Tail(s), c, w)

\* str.strip()
RECURSIVE LStrip(_)
LStrip(s) ==
    IF s # << >> /\ s[1] \in Whitespace THEN LStrip(Tail(s)) ELSE s

RECURSIVE RStrip(_)
RStrip(s) ==
    IF s # << >> /\ s[Len(s)] \in Whitespace
    THEN RStrip(SubSeq(s, 1, Len(s) - 1))
    ELSE s

Strip(s) == RStrip(LStrip(s))

\* sub in s
Contains(s, sub) ==
    \E i \in 1..(Len(s) - Len(sub) + 1) : SubSeq(s, i, i + Len(sub) - 1) = sub

(***************************************************************************)
(* Cells and Python values.  A cell is blank (pandas NaN) or holds text.   *)
(* A value stored in a parsed record carries its Python type.              *)
(***************************************************************************)
NaN == [kind |-> "nan", s |-> << >>]
Text(s) == [kind |-> "str", s |-> s]

PyStr(s) == [str |-> s]
PyInt(n) == [int |-> n]
PyBool(b) == [bool |-> b]
IsInt(v) == "int" \in DOMAIN v

Dash == <<"-">>

\* The decimal digits of a natural number
RECURSIVE Decimal(_)
Decimal(n) ==
    IF n < 10 THEN <<DigitChars[n + 1]>>
    ELSE Decimal(n \div 10) \o <<DigitChars[(n % 10) + 1]>>

\* str(val) of a raw cell value: text, float nan, None, pandas NaT, an int
\* or a datetime
str(val) ==
    CASE val.kind = "str" -> val.s
      [] val.kind = "nan" -> <<"n","a","n">>
      [] val.kind = "none" -> <<"N","o","n","e">>
      [] val.kind = "nat" -> <<"N","a","T">>
      [] val.kind = "int" ->
            IF val.n < 0 THEN <<"-">> \o Decimal(0 - val.n) ELSE Decimal(val.n)
      [] val.kind = "datetime" ->
            LET two(n) == IF n < 10 THEN <<"0">> \o Decimal(n) ELSE Decimal(n)
            IN Decimal(val.year) \o <<"-">> \o two(val.month) \o <<"-">> \o two(val.day)
               \o <<" ">> \o two(val.hour) \o <<":","0","0",":","0","0">>

\* val.strftime('%Y-%m-%d')
strftime(val) ==
    LET two(n) == IF n < 10 THEN <<"0">> \o Decimal(n) ELSE Decimal(n)
    IN Decimal(val.year) \o <<"-">> \o two(val.month) \o <<"-">> \o two(val.day)

clean_valueCaseSensitive(val) ==
    IF val.kind \in {"nan", "none", "nat"}
       \/ (val.kind = "str" /\ val.s = << >>)
       \/ str(val) = <<"n","a","n">>
    THEN Dash
    ELSE IF val.kind = "datetime" THEN strftime(val)
    ELSE Strip(str(val))

\* BaseParserService.clean_value: pd.isna(val) or val == "" or
\* str(val).lower() == "nan"; then isinstance(val, datetime); then
\* str(val).strip()
clean_value(val) ==
    IF val.kind \in {"nan", "none", "nat"}
       \/ (val.kind = "str" /\ val.s = << >>)
       \/ Lower(str(val)) = <<"n","a","n">>
    THEN Dash
    ELSE IF val.kind = "datetime" THEN strftime(val)
    ELSE Strip(str(val))

(***************************************************************************)
(* Dictionaries (Python dict) as functions                                 *)
(***************************************************************************)
EmptyDict == [k \in {} |-> 0]
Put(d, k, v) == [j \in DOMAIN d \cup {k} |-> IF j = k THEN v ELSE d[j]]
Get(d, k, default) == IF k \in DOMAIN d THEN d[k] ELSE default
DictLenOffByOne(d) == Cardinality(DOMAIN d) + 1

DictLen(d) == Cardinality(DOMAIN d)

(***************************************************************************)
(* Sheet readers of BaseParserService.  A reader returns its value and the *)
(* errors list of the parser after the read; `raised' is the exception     *)
(* that escaped the reader (none: every reader catches Exception).         *)
(***************************************************************************)
ParseError(sheet_name) == [msg |-> "Error parsing", sheet |-> sheet_name]
ImageError == [msg |-> "Image extraction error", sheet |-> None]

SectionOk(value, errors) ==
    [value |-> value, errors |-> errors, raised |-> NoException]

\* except Exception as e: self.errors.append(...); return {} / []
SectionFailed(empty, errors, sheet_name) ==
    [value |-> empty, errors |-> Append(errors, ParseError(sheet_name)),
     raised |-> NoException]

\* if sheet_name not in self.xls.sheet_names: return {} / []
SheetAbsentUnchecked(f, sheet_name) == FALSE

SheetAbsent(f, sheet_name) == sheet_name \notin Range(f.sheet_names)

\* pd.read_excel(self.xls, sheet_name=...) throws on a sheet the workbook
\* does not have and on a damaged sheet
ReadThrows(f, sheet_name) ==
    sheet_name \notin Range(f.sheet_names) \/ sheet_name \in f.corrupt

\* row[column] on a frame read with header=None: KeyError when the frame
\* has rows but no such column
ColumnMissing(df, column) == df # << >> /\ column + 1 > Len(df[1])

DefaultSkipHeaders ==
    {<<"f","i","e","l","d">>, <<"m","e","t","r","i","c">>,
     <<"s","u","c","c","e","s","s"," ","m","e","t","r","i","c","s">>}

\* clean_key = str(key).lower().replace(" ", "_").replace(":", "")
\*             .replace("/", "_").replace("(", "").replace(")", "")
CleanKey(key) ==
    Replace(Replace(Replace(Replace(Replace(Lower(key),
        " ", <<"_">>), ":", << >>), "/", <<"_">>), "(", << >>), ")", << >>)

RECURSIVE KeyValueRows(_, _, _, _, _)
KeyValueRows(df, key_column, value_column, skip_headers, result_data) ==
    IF df = << >> THEN result_data
    ELSE LET row == df[1]
             key == row[key_column + 1]
             val == row[value_column + 1]
             keep == /\ key.kind # "nan"
                     /\ val.kind # "nan"
                     /\ Lower(key.s) \notin skip_headers
         IN KeyValueRows(Tail(df), key_column, value_column, skip_headers,
                IF keep
                THEN Put(result_data, CleanKey(key.s), PyStr(clean_value(val)))
                ELSE result_data)

parse_key_value_sheet(f, errors, sheet_name, key_column, value_column, skip_headers) ==
    IF SheetAbsent(f, sheet_name) THEN SectionOk(EmptyDict, errors)
    ELSE IF ReadThrows(f, sheet_name) THEN SectionFailed(EmptyDict, errors, sheet_name)
    ELSE LET df == f.sheets[sheet_name]
         IN IF ColumnMissing(df, key_column) \/ ColumnMissing(df, value_column)
            THEN SectionFailed(EmptyDict, errors, sheet_name)
            ELSE SectionOk(KeyValueRows(df, key_column, value_column,
                                        skip_headers, EmptyDict), errors)

\* Column labels of a frame read with header=0: the cells of the first row;
\* a blank header cell is labelled "Unnamed: <column index>".
HeaderLabel(cell, j) ==
    IF cell.kind = "nan"
    THEN <<"U","n","n","a","m","e","d",":"," ">> \o <<DigitChars[j]>>
    ELSE cell.s

\* clean_row = {k: self.clean_value(v) for k, v in row.items()}
CleanRow(header, row) ==
    LET labels == {HeaderLabel(header[j], j) : j \in 1..Len(header)}
    IN [k \in labels |->
          LET j == CHOOSE i \in 1..Len(header) : HeaderLabel(header[i], i) = k
          IN PyStr(clean_value(row[j]))]

(***************************************************************************)
(* Dictionary keys the parsers look up                                     *)
(***************************************************************************)
K ==
    [figma_url |-> <<"f","i","g","m","a","_","u","r","l">>,
     figma_file_id |-> <<"f","i","g","m","a","_","f","i","l","e","_","i","d">>,
     url_valid |-> <<"u","r","l","_","v","a","l","i","d">>,
     file_type |-> <<"f","i","l","e","_","t","y","p","e">>,
     is_image |-> <<"i","s","_","i","m","a","g","e">>,
     is_design_file |-> <<"i","s","_","d","e","s","i","g","n","_","f","i","l","e">>,
     asset_name |-> <<"a","s","s","e","t","_","n","a","m","e">>,
     requires_separate_upload |-> <<"r","e","q","u","i","r","e","s","_","s","e","p","a","r","a","t","e","_","u","p","l","o","a","d">>,
     layer |-> <<"l","a","y","e","r">>,
     category |-> <<"c","a","t","e","g","o","r","y">>,
     duration |-> <<"d","u","r","a","t","i","o","n">>,
     duration_days |-> <<"d","u","r","a","t","i","o","n","_","d","a","y","s">>,
     start_date |-> <<"s","t","a","r","t","_","d","a","t","e">>,
     end_date |-> <<"e","n","d","_","d","a","t","e">>,
     start_date_parsed |-> <<"s","t","a","r","t","_","d","a","t","e","_","p","a","r","s","e","d">>,
     end_date_parsed |-> <<"e","n","d","_","d","a","t","e","_","p","a","r","s","e","d">>,
     type |-> <<"t","y","p","e">>,
     is_diagram |-> <<"i","s","_","d","i","a","g","r","a","m">>,
     is_document |-> <<"i","s","_","d","o","c","u","m","e","n","t">>,
     is_technical_spec |-> <<"i","s","_","t","e","c","h","n","i","c","a","l","_","s","p","e","c">>,
     document_name |-> <<"d","o","c","u","m","e","n","t","_","n","a","m","e">>,
     status |-> <<"s","t","a","t","u","s">>,
     approval_status |-> <<"a","p","p","r","o","v","a","l","_","s","t","a","t","u","s">>,
     division |-> <<"d","i","v","i","s","i","o","n">>,
     product_name |-> <<"p","r","o","d","u","c","t","_","n","a","m","e">>,
     project_name |-> <<"p","r","o","j","e","c","t","_","n","a","m","e">>]

(***************************************************************************)
(* UIUXParserService: per-row processing of Figma Links and Design Assets  *)
(***************************************************************************)
\* Position of the first occurrence of sub in s, 0 when there is none
IndexOf(s, sub) ==
    IF Contains(s, sub)
    THEN CHOOSE i \in 1..(Len(s) - Len(sub) + 1) :
            /\ SubSeq(s, i, i + Len(sub) - 1) = sub
            /\ \A j \in 1..(i - 1) : SubSeq(s, j, j + Len(sub) - 1) # sub
    ELSE 0

\* s.split(c)[0] for a one-character c
UpTo(s, c) ==
    IF c \in Range(s) THEN SubSeq(s, 1, IndexOf(s, <<c>>) - 1) ELSE s

\* url.split('/file/')[1].split('/')[0], "" without a '/file/' segment
_extract_figma_file_id(url) ==
    LET marker == <<"/","f","i","l","e","/">>
    IN IF Contains(url, marker)
       THEN UpTo(SubSeq(url, IndexOf(url, marker) + Len(marker), Len(url)), "/")
       ELSE << >>

FigmaRow(clean_row) ==
    IF K.figma_url \in DOMAIN clean_row
    THEN LET url == clean_row[K.figma_url].str
         IN IF url # << >> /\ url # Dash
               /\ Contains(Lower(url), <<"f","i","g","m","a",".","c","o","m">>)
            THEN Put(Put(clean_row, K.figma_file_id, PyStr(_extract_figma_file_id(url))),
                     K.url_valid, PyBool(TRUE))
            ELSE Put(clean_row, K.url_valid, PyBool(FALSE))
    ELSE clean_row

ImageFileTypes == {<<"P","N","G">>,
     <<"J","P","G">>,
     <<"J","P","E","G">>,
     <<"G","I","F">>,
     <<"S","V","G">>}
DesignFileTypes == {<<"F","I","G">>,
     <<"S","K","E","T","C","H">>,
     <<"P","S","D">>,
     <<"A","I">>}
UploadKeywords == {<<"s","c","r","e","e","n","s","h","o","t">>,
     <<"m","o","c","k","u","p">>,
     <<"p","r","o","t","o","t","y","p","e">>,
     <<"d","e","s","i","g","n">>,
     <<"w","i","r","e","f","r","a","m","e">>}

AssetFileType(clean_row) ==
    IF K.file_type \in DOMAIN clean_row
    THEN LET file_type == Upper(clean_row[K.file_type].str)
         IN Put(Put(clean_row, K.is_image, PyBool(file_type \in ImageFileTypes)),
                K.is_design_file, PyBool(file_type \in DesignFileTypes))
    ELSE clean_row

AssetRow(clean_row) ==
    LET typed == AssetFileType(clean_row)
    IN IF K.asset_name \in DOMAIN typed
       THEN Put(typed, K.requires_separate_upload,
                PyBool(\E keyword \in UploadKeywords :
                          Contains(Lower(typed[K.asset_name].str), keyword)))
       ELSE typed

\* UIUXParserService.parse_approval and EngineerParserService.parse_approval
parse_approval(f, errors, division) ==
    LET read == parse_key_value_sheet(f, errors, "Approval", 0, 1, DefaultSkipHeaders)
        approval_data == read.value
    IN IF DictLen(approval_data) > 0
       THEN [read EXCEPT !.value =
                Put(Put(approval_data, K.approval_status,
                        PyStr(Upper(Get(approval_data, K.status,
                                        PyStr(<<"P","E","N","D","I","N","G">>)).str))),
                    K.division, PyStr(division))]
       ELSE read

(***************************************************************************)
(* EngineerParserService: per-row processing of Tech Stack, Development    *)
(* Estimate and Architecture Documents                                     *)
(***************************************************************************)
_categorize_tech_layerBackendFirst(layer) ==
    LET layer_lower == Lower(layer)
    IN IF Contains(layer_lower, <<"b","a","c","k","e","n","d">>) \/ Contains(layer_lower, <<"a","p","i">>)
       THEN <<"b","a","c","k","e","n","d">>
       ELSE IF Contains(layer_lower, <<"f","r","o","n","t","e","n","d">>) \/ Contains(layer_lower, <<"u","i">>)
       THEN <<"f","r","o","n","t","e","n","d">>
       ELSE IF Contains(layer_lower, <<"d","a","t","a","b","a","s","e">>) \/ Contains(layer_lower, <<"d","a","t","a">>)
       THEN <<"d","a","t","a","b","a","s","e">>
       ELSE IF Contains(layer_lower, <<"i","n","f","r","a","s","t","r","u","c","t","u","r","e">>) \/ Contains(layer_lower, <<"d","e","v","o","p","s">>)
       THEN <<"i","n","f","r","a","s","t","r","u","c","t","u","r","e">>
       ELSE IF Contains(layer_lower, <<"t","e","s","t","i","n","g">>) \/ Contains(layer_lower, <<"q","a">>)
       THEN <<"t","e","s","t","i","n","g">>
       ELSE <<"o","t","h","e","r">>

_categorize_tech_layer(layer) ==
    LET layer_lower == Lower(layer)
    IN IF Contains(layer_lower, <<"f","r","o","n","t","e","n","d">>) \/ Contains(layer_lower, <<"u","i">>)
       THEN <<"f","r","o","n","t","e","n","d">>
       ELSE IF Contains(layer_lower, <<"b","a","c","k","e","n","d">>) \/ Contains(layer_lower, <<"a","p","i">>)
       THEN <<"b","a","c","k","e","n","d">>
       ELSE IF Contains(layer_lower, <<"d","a","t","a","b","a","s","e">>) \/ Contains(layer_lower, <<"d","a","t","a">>)
       THEN <<"d","a","t","a","b","a","s","e">>
       ELSE IF Contains(layer_lower, <<"i","n","f","r","a","s","t","r","u","c","t","u","r","e">>) \/ Contains(layer_lower, <<"d","e","v","o","p","s">>)
       THEN <<"i","n","f","r","a","s","t","r","u","c","t","u","r","e">>
       ELSE IF Contains(layer_lower, <<"t","e","s","t","i","n","g">>) \/ Contains(layer_lower, <<"q","a">>)
       THEN <<"t","e","s","t","i","n","g">>
       ELSE <<"o","t","h","e","r">>

TechRow(clean_row) ==
    IF K.layer \in DOMAIN clean_row
    THEN Put(clean_row, K.category,
             PyStr(_categorize_tech_layer(Lower(clean_row[K.layer].str))))
    ELSE clean_row

IsDigit(c) == c \in Range(DigitChars)
DigitValue(c) == (CHOOSE i \in 1..10 : DigitChars[i] = c) - 1

\* re.search(r'(\d+)', s).group(1): the first maximal run of digits
RECURSIVE DigitPrefix(_)
DigitPrefix(s) ==
    IF s # << >> /\ IsDigit(s[1]) THEN <<s[1]>> \o DigitPrefix(Tail(s)) ELSE << >>

RECURSIVE FirstDigits(_)
FirstDigits(s) ==
    IF s = << >> THEN << >>
    ELSE IF IsDigit(s[1]) THEN DigitPrefix(s)
    ELSE FirstDigits(Tail(s))

\* int(digits)
RECURSIVE ToInt(_)
ToInt(digits) ==
    IF digits = << >> THEN 0
    ELSE 10 * ToInt(SubSeq(digits, 1, Len(digits) - 1)) + DigitValue(digits[Len(digits)])

_parse_duration_to_daysIn31(duration_str) ==
    LET s == Lower(duration_str)
        digits == FirstDigits(s)
    IN IF Contains(s, <<"w","e","e","k">>)
       THEN (IF digits # << >> THEN ToInt(digits) * 7 ELSE 0)
       ELSE IF Contains(s, <<"d","a","y">>)
       THEN (IF digits # << >> THEN ToInt(digits) ELSE 0)
       ELSE IF Contains(s, <<"m","o","n","t","h">>)
       THEN (IF digits # << >> THEN ToInt(digits) * 31 ELSE 0)
       ELSE 0

_parse_duration_to_days(duration_str) ==
    LET s == Lower(duration_str)
        digits == FirstDigits(s)
    IN IF Contains(s, <<"w","e","e","k">>)
       THEN (IF digits # << >> THEN ToInt(digits) * 7 ELSE 0)
       ELSE IF Contains(s, <<"d","a","y">>)
       THEN (IF digits # << >> THEN ToInt(digits) ELSE 0)
       ELSE IF Contains(s, <<"m","o","n","t","h">>)
       THEN (IF digits # << >> THEN ToInt(digits) * 30 ELSE 0)
       ELSE 0

EstimateDuration(clean_row) ==
    IF K.duration \in DOMAIN clean_row
    THEN Put(clean_row, K.duration_days,
             PyInt(_parse_duration_to_days(clean_row[K.duration].str)))
    ELSE clean_row

\* if date_val and date_val != "-": clean_row[f'{date_field}_parsed'] = str(date_val)
EstimateDate(clean_row, date_field, parsed_field) ==
    IF date_field \in DOMAIN clean_row
       /\ clean_row[date_field].str # << >>
       /\ clean_row[date_field].str # Dash
    THEN Put(clean_row, parsed_field, PyStr(clean_row[date_field].str))
    ELSE clean_row

EstimateRow(clean_row) ==
    EstimateDate(EstimateDate(EstimateDuration(clean_row),
                              K.start_date, K.start_date_parsed),
                 K.end_date, K.end_date_parsed)

DiagramTypes == {<<"P","N","G">>, <<"J","P","G">>, <<"J","P","E","G">>, <<"S","V","G">>, <<"P","D","F">>}
DocumentTypes == {<<"P","D","F">>, <<"D","O","C">>, <<"D","O","C","X">>, <<"T","X","T">>}
TechnicalKeywords ==
    {<<"a","r","c","h","i","t","e","c","t","u","r","e">>, <<"s","c","h","e","m","a">>, <<"a","p","i">>, <<"t","e","c","h","n","i","c","a","l">>, <<"s","p","e","c","i","f","i","c","a","t","i","o","n">>}

ArchitectureRow(clean_row) ==
    IF K.type \in DOMAIN clean_row
    THEN LET doc_type == Upper(clean_row[K.type].str)
             document_name == Get(clean_row, K.document_name, PyStr(<< >>)).str
         IN Put(Put(Put(clean_row, K.is_diagram, PyBool(doc_type \in DiagramTypes)),
                    K.is_document, PyBool(doc_type \in DocumentTypes)),
                K.is_technical_spec,
                PyBool(\E keyword \in TechnicalKeywords :
                          Contains(Lower(document_name), keyword)))
    ELSE clean_row

\* The per-row processing a variant applies to the rows of a tabular sheet
ProcessRow(sheet_name, clean_row) ==
    CASE sheet_name = "Figma Links" -> FigmaRow(clean_row)
      [] sheet_name = "Design Assets" -> AssetRow(clean_row)
      [] sheet_name = "Tech Stack" -> TechRow(clean_row)
      [] sheet_name = "Development Estimate" -> EstimateRow(clean_row)
      [] sheet_name = "Architecture Documents" -> ArchitectureRow(clean_row)
      [] OTHER -> clean_row

TabularRecordsWithHeader(df, sheet_name) ==
    [i \in 1..Len(df) |-> ProcessRow(sheet_name, CleanRow(df[1], df[i]))]

\* for _, row in df.iterrows(): ... records.append(clean_row), on a frame
\* read with header=0
TabularRecords(df, sheet_name) ==
    IF df = << >> THEN << >>
    ELSE [i \in 1..(Len(df) - 1) |-> ProcessRow(sheet_name, CleanRow(df[1], df[i + 1]))]

\* BaseParserService.parse_tabular_sheet, and the readers of the UIUX and
\* ENGINEER variants that repeat it with their own row processing
parse_tabular_sheet(f, errors, sheet_name) ==
    IF SheetAbsent(f, sheet_name) THEN SectionOk(<< >>, errors)
    ELSE IF ReadThrows(f, sheet_name) THEN SectionFailed(<< >>, errors, sheet_name)
    ELSE SectionOk(TabularRecords(f.sheets[sheet_name], sheet_name), errors)

parse_figma_links(f, errors) == parse_tabular_sheet(f, errors, "Figma Links")
parse_design_assets(f, errors) == parse_tabular_sheet(f, errors, "Design Assets")
parse_tech_stack(f, errors) == parse_tabular_sheet(f, errors, "Tech Stack")
parse_development_estimate(f, errors) ==
    parse_tabular_sheet(f, errors, "Development Estimate")
parse_architecture_documents(f, errors) ==
    parse_tabular_sheet(f, errors, "Architecture Documents")

(***************************************************************************)
(* ImageExtractor (services/image_extractor.py)                            *)
(*                                                                         *)
(* An embedded image of a document is a record                             *)
(*   [sheet, media, size, magic, has_data, decodable, fails]               *)
(* sheet: the sheet that anchors it; media: its path in the archive;       *)
(* size: its byte length; magic: the signature its bytes start with;       *)
(* has_data: the structured model holds its bytes; decodable: PIL can read *)
(* its dimensions; fails: the passes in which reading or persisting it     *)
(* throws.  The store is [files, overwritten, writable]: the paths written *)
(* so far, those written again while they existed, and whether the uploads *)
(* directory can be created.                                               *)
(***************************************************************************)
\* The characters of a sheet name
SheetNameText(n) ==
    CASE n = "Product Overview" -> <<"P","r","o","d","u","c","t"," ","O","v","e","r","v","i","e","w">>
      [] n = "User Story" -> <<"U","s","e","r"," ","S","t","o","r","y">>
      [] n = "Acceptance Criteria" -> <<"A","c","c","e","p","t","a","n","c","e"," ","C","r","i","t","e","r","i","a">>
      [] n = "Business Value" -> <<"B","u","s","i","n","e","s","s"," ","V","a","l","u","e">>
      [] n = "BA Approval" -> <<"B","A"," ","A","p","p","r","o","v","a","l">>
      [] n = "Design Overview" -> <<"D","e","s","i","g","n"," ","O","v","e","r","v","i","e","w">>
      [] n = "Figma Links" -> <<"F","i","g","m","a"," ","L","i","n","k","s">>
      [] n = "Design Assets" -> <<"D","e","s","i","g","n"," ","A","s","s","e","t","s">>
      [] n = "Design Decisions" -> <<"D","e","s","i","g","n"," ","D","e","c","i","s","i","o","n","s">>
      [] n = "Approval" -> <<"A","p","p","r","o","v","a","l">>
      [] n = "Project Info" -> <<"P","r","o","j","e","c","t"," ","I","n","f","o">>
      [] n = "Tech Stack" -> <<"T","e","c","h"," ","S","t","a","c","k">>
      [] n = "Development Estimate" -> <<"D","e","v","e","l","o","p","m","e","n","t"," ","E","s","t","i","m","a","t","e">>
      [] n = "Architecture Documents" -> <<"A","r","c","h","i","t","e","c","t","u","r","e"," ","D","o","c","u","m","e","n","t","s">>
      [] n = "Infrastructure" -> <<"I","n","f","r","a","s","t","r","u","c","t","u","r","e">>
      [] n = "Sheet1" -> <<"S","h","e","e","t","1">>
      [] n = "Notes" -> <<"N","o","t","e","s">>
      [] n = "Changelog" -> <<"C","h","a","n","g","e","l","o","g">>

PyNone == [none |-> TRUE]

_determine_image_type(sheet_name) ==
    LET sheet_lower == Lower(SheetNameText(sheet_name))
        any(keywords) == \E keyword \in keywords : Contains(sheet_lower, keyword)
    IN IF any({<<"d","e","s","i","g","n">>, <<"u","i">>, <<"u","x">>, <<"m","o","c","k","u","p">>, <<"w","i","r","e","f","r","a","m","e">>})
       THEN "mockups"
       ELSE IF any({<<"s","c","r","e","e","n","s","h","o","t">>, <<"s","c","r","e","e","n">>, <<"c","a","p","t","u","r","e">>})
       THEN "screenshots"
       ELSE IF any({<<"d","i","a","g","r","a","m">>, <<"a","r","c","h">>, <<"f","l","o","w">>, <<"c","h","a","r","t">>})
       THEN "diagrams"
       ELSE "wireframes"

_determine_image_type_from_path(file_path) ==
    LET path_lower == Lower(file_path)
    IN IF Contains(path_lower, <<"d","e","s","i","g","n">>) \/ Contains(path_lower, <<"m","o","c","k","u","p">>)
          \/ Contains(path_lower, <<"u","i">>)
       THEN "mockups"
       ELSE IF Contains(path_lower, <<"s","c","r","e","e","n","s","h","o","t">>) \/ Contains(path_lower, <<"s","c","r","e","e","n">>)
       THEN "screenshots"
       ELSE IF Contains(path_lower, <<"d","i","a","g","r","a","m">>) \/ Contains(path_lower, <<"a","r","c","h">>)
       THEN "diagrams"
       ELSE "wireframes"

_get_image_extension(magic) ==
    CASE magic = "PNG" -> "png"
      [] magic = "JPEG" -> "jpg"
      [] magic \in {"GIF87a", "GIF89a"} -> "gif"
      [] magic = "BM" -> "bmp"
      [] OTHER -> "png"

\* PIL's Image.open(...).format.lower() for a decodable image
MimeOf(magic) ==
    CASE magic = "PNG" -> "png"
      [] magic = "JPEG" -> "jpeg"
      [] magic \in {"GIF87a", "GIF89a"} -> "gif"
      [] magic = "BM" -> "bmp"
      [] OTHER -> "png"

\* os.path.basename(file_info.filename)
RECURSIVE Basename(_)
Basename(path) ==
    IF "/" \in Range(path)
    THEN Basename(SubSeq(path, IndexOf(path, <<"/">>) + 1, Len(path)))
    ELSE path

RelativePath(batch_id, document_id, image_type, file_name) ==
    [batch_id |-> batch_id, document_id |-> document_id,
     image_type |-> image_type, file_name |-> file_name]

Descriptor(img, image_type, sheet_name, file_name, batch_id, document_id, method) ==
    [image_type |-> image_type,
     sheet_name |-> sheet_name,
     file_name |-> file_name,
     file_path |-> RelativePath(batch_id, document_id, image_type, file_name),
     file_size |-> img.size,
     mime_type |-> IF img.decodable THEN PyStr(MimeOf(img.magic)) ELSE PyNone,
     width |-> IF img.decodable THEN PyInt(img.width) ELSE PyNone,
     height |-> IF img.decodable THEN PyInt(img.height) ELSE PyNone,
     extraction_method |-> method]

\* _process_openpyxl_image for the k-th uuid4 drawn
_process_openpyxl_image(img, sheet_name, batch_id, document_id, k) ==
    LET image_type == _determine_image_type(sheet_name)
        file_name == [uuid |-> k, ext |-> _get_image_extension(img.magic)]
    IN Descriptor(img, image_type, sheet_name, file_name, batch_id, document_id,
                  "openpyxl")

\* _process_zip_image
_process_zip_image(img, batch_id, document_id) ==
    LET image_type == _determine_image_type_from_path(img.media)
        file_name == [base |-> Basename(img.media)]
    IN Descriptor(img, image_type, "Unknown (ZIP extraction)", file_name,
                  batch_id, document_id, "zip_extraction")

\* The images of the workbook in the order the sheets are visited
RECURSIVE ImagesBySheet(_, _)
ImagesBySheet(sheet_names, images) ==
    IF sheet_names = << >> THEN << >>
    ELSE SelectSeq(images, LAMBDA img : img.sheet = sheet_names[1])
         \o ImagesBySheet(Tail(sheet_names), images)

\* The images _process_openpyxl_image draws a uuid4 for: those with byte data
WithData(f) ==
    SelectSeq(ImagesBySheet(f.sheet_names, f.images), LAMBDA img : img.has_data)

\* _extract_with_openpyxl: an image without byte data yields None, and so
\* does one whose processing throws; the others keep the uuid4 drawn for them
_extract_with_openpyxl(f, batch_id, document_id, uuid_base) ==
    LET numbered == [i \in 1..Len(WithData(f)) |->
                        [img |-> WithData(f)[i], k |-> uuid_base + i]]
        processed == SelectSeq(numbered, LAMBDA x : "openpyxl" \notin x.img.fails)
    IN [i \in 1..Len(processed) |->
          _process_openpyxl_image(processed[i].img, processed[i].img.sheet,
                                  batch_id, document_id, processed[i].k)]

\* _extract_with_zip: every archive entry under xl/media/ whose processing
\* does not throw
_extract_with_zip(f, batch_id, document_id) ==
    LET media == SelectSeq(f.images,
                    LAMBDA img : /\ SubSeq(img.media, 1, 9) = <<"x","l","/","m","e","d","i","a","/">>
                                 /\ "zip" \notin img.fails)
    IN [i \in 1..Len(media) |-> _process_zip_image(media[i], batch_id, document_id)]

\* with open(full_path, 'wb') as f: f.write(image_bytes), for each path in
\* turn: a path that exists is truncated and written again
RECURSIVE WriteAll(_, _)
WriteAll(st, paths) ==
    IF paths = << >> THEN st
    ELSE WriteAll([st EXCEPT !.files = @ \cup {paths[1]},
                             !.overwritten = IF paths[1] \in st.files
                                             THEN @ \cup {paths[1]} ELSE @],
                  Tail(paths))

RemoveDuplicatesKeepsAll(images, seen) == images

RECURSIVE RemoveDuplicates(_, _)
RemoveDuplicates(images, seen) ==
    IF images = << >> THEN << >>
    ELSE LET img == images[1]
             key == <<img.file_size, img.image_type>>
         IN IF key \notin seen
            THEN <<img>> \o RemoveDuplicates(Tail(images), seen \cup {key})
            ELSE RemoveDuplicates(Tail(images), seen)

_remove_duplicates(images) == RemoveDuplicates(images, {})

\* extract_images_from_excel: the returned list, the store after the writes
\* of both passes, and the number of uuid4 values drawn
extract_images_from_excel(f, batch_id, document_id, st, uuid_base) ==
    LET openpyxl_images == _extract_with_openpyxl(f, batch_id, document_id, uuid_base)
        zip_images == _extract_with_zip(f, batch_id, document_id)
        images == openpyxl_images \o zip_images
    IN [images |-> _remove_duplicates(images),
        store |-> WriteAll(st, [i \in 1..Len(images) |-> images[i].file_path]),
        uuid_next |-> uuid_base + Len(WithData(f))]

FalsyNever(id) == FALSE

Falsy(id) == id = None \/ id = ""

\* BaseParserService.extract_images.  create_upload_directory throws when
\* the uploads directory cannot be written; the handler records the error.
extract_images(self, f, batch_id, document_id, st, uuid_base) ==
    IF Falsy(batch_id) \/ Falsy(document_id)
    THEN [value |-> << >>, self |-> self, store |-> st, uuid_next |-> uuid_base]
    ELSE IF ~st.writable
    THEN [value |-> << >>,
          self |-> [self EXCEPT !.errors = Append(@, ImageError)],
          store |-> st, uuid_next |-> uuid_base]
    ELSE LET ex == extract_images_from_excel(f, batch_id, document_id, st, uuid_base)
         IN [value |-> ex.images,
             self |-> [self EXCEPT !.extracted_images = ex.images],
             store |-> ex.store, uuid_next |-> ex.uuid_next]

\* BaseParserService.generate_image_metadata
generate_image_metadata(self, uuid_base) ==
    [i \in 1..Len(self.extracted_images) |->
        LET img == self.extracted_images[i]
        IN [id |-> uuid_base + i,
            type |-> img.image_type,
            file_name |-> img.file_name,
            file_path |-> img.file_path,
            url |-> [prefix |-> "/api/images/", path |-> img.file_path],
            sheet_name |-> img.sheet_name,
            file_size |-> img.file_size,
            width |-> img.width,
            height |-> img.height,
            mime_type |-> img.mime_type]]

(***************************************************************************)
(* process_file of the three variants.  `self' is the parser instance      *)
(* [type, errors, extracted_images]; the value is                          *)
(*   [raised, result, self, store, uuid_next].                             *)
(***************************************************************************)
FirstRaised(reads) ==
    IF \E i \in 1..Len(reads) : reads[i].raised # NoException
    THEN reads[CHOOSE i \in 1..Len(reads) :
                  /\ reads[i].raised # NoException
                  /\ \A j \in 1..(i - 1) : reads[j].raised = NoException].raised
    ELSE NoException

Raise(exception, self, st, uuid_base) ==
    [raised |-> exception, result |-> NoResult, self |-> self,
     store |-> st, uuid_next |-> uuid_base]

Return(res, self, st, uuid_base) ==
    [raised |-> NoException, result |-> res, self |-> self,
     store |-> st, uuid_next |-> uuid_base]

ApprovalStatuses == {<<"A","P","P","R","O","V","E","D">>, <<"R","E","J","E","C","T","E","D">>, <<"P","E","N","D","I","N","G">>}

\* extracted_images = self.extract_images(batch_id, document_id), run on the
\* instance the sections have left their errors on
WithImages(self, f, batch_id, document_id, st, uuid_base, reads) ==
    [reads |-> reads,
     ex |-> extract_images([self EXCEPT !.errors = reads[Len(reads)].errors],
                           f, batch_id, document_id, st, uuid_base)]

\* BAParserService.process_file: the sheet sections, in order
BA_sections(f, errors) ==
    LET overview == parse_key_value_sheet(f, errors, "Product Overview",
                                          0, 1, DefaultSkipHeaders)
        user_stories == parse_tabular_sheet(f, overview.errors, "User Story")
        acceptance_criteria ==
            parse_tabular_sheet(f, user_stories.errors, "Acceptance Criteria")
        business_values ==
            parse_key_value_sheet(f, acceptance_criteria.errors, "Business Value",
                                  0, 1, DefaultSkipHeaders)
        ba_approval ==
            parse_key_value_sheet(f, business_values.errors, "BA Approval",
                                  0, 1, DefaultSkipHeaders)
    IN <<overview, user_stories, acceptance_criteria, business_values, ba_approval>>

\* BAParserService.process_file: the result built from the sections
BA_result(self, st, uuid_base, run) ==
    LET reads == run.reads
        ex == run.ex
        overview == reads[1]
        user_stories == reads[2]
        acceptance_criteria == reads[3]
        business_values == reads[4]
        ba_approval == reads[5]
        extracted_images == ex.value
        image_metadata == generate_image_metadata(ex.self, ex.uuid_next)
        status_field == Upper(Get(ba_approval.value, K.status, PyStr(<< >>)).str)
        approval_status ==
            IF DictLen(ba_approval.value) > 0 /\ status_field \in ApprovalStatuses
            THEN status_field
            ELSE <<"P","E","N","D","I","N","G">>
        full_json_metadata ==
            [product_details |-> overview.value,
             business_values |-> business_values.value,
             ba_approval |-> ba_approval.value,
             user_stories |-> user_stories.value,
             acceptance_criteria |-> acceptance_criteria.value,
             images |-> image_metadata,
             approval_status |-> approval_status,
             parsing_stats |->
                [total_us |-> Len(user_stories.value),
                 total_ac |-> Len(acceptance_criteria.value),
                 total_bv |-> DictLen(business_values.value),
                 total_images |-> Len(extracted_images),
                 has_ba_approval |-> DictLen(ba_approval.value) > 0,
                 has_images |-> Len(extracted_images) > 0,
                 template_type |-> "BA"]]
    IN IF FirstRaised(reads) # NoException
       THEN Raise(FirstRaised(reads), self, st, uuid_base)
       ELSE Return(
              [title |-> Get(overview.value, K.product_name,
                             PyStr(<<"U","n","t","i","t","l","e","d"," ","P","r","o","d","u","c","t">>)).str,
               category_name |-> Get(overview.value, K.category,
                                     PyStr(<<"U","n","c","a","t","e","g","o","r","i","z","e","d">>)).str,
               template_type |-> "BA",
               metadata |-> full_json_metadata,
               errors |-> ex.self.errors,
               extracted_images |-> extracted_images],
              ex.self, ex.store, ex.uuid_next + Len(image_metadata))

BA_process_file(self, f, batch_id, document_id, st, uuid_base) ==
    BA_result(self, st, uuid_base,
              WithImages(self, f, batch_id, document_id, st, uuid_base,
                         BA_sections(f, self.errors)))

\* UIUXParserService.process_file: the sheet sections, in order
UIUX_sections(f, errors) ==
    LET design_overview == parse_key_value_sheet(f, errors, "Design Overview",
                                                 0, 1, DefaultSkipHeaders)
        figma_links == parse_figma_links(f, design_overview.errors)
        design_assets == parse_design_assets(f, figma_links.errors)
        design_decisions ==
            parse_tabular_sheet(f, design_assets.errors, "Design Decisions")
        approval == parse_approval(f, design_decisions.errors, <<"U","I","U","X">>)
    IN <<design_overview, figma_links, design_assets, design_decisions, approval>>

\* UIUXParserService.process_file: the result built from the sections
UIUX_result(self, st, uuid_base, run) ==
    LET reads == run.reads
        ex == run.ex
        design_overview == reads[1]
        figma_links == reads[2]
        design_assets == reads[3]
        design_decisions == reads[4]
        approval == reads[5]
        extracted_images == ex.value
        image_metadata == generate_image_metadata(ex.self, ex.uuid_next)
        assets_requiring_upload ==
            SelectSeq(design_assets.value,
                LAMBDA asset :
                    LET flag == Get(asset, K.requires_separate_upload, PyBool(FALSE))
                    IN IF "bool" \in DOMAIN flag THEN flag.bool ELSE flag.str # << >>)
        approval_status ==
            Get(approval.value, K.approval_status, PyStr(<<"P","E","N","D","I","N","G">>)).str
        full_json_metadata ==
            [design_overview |-> design_overview.value,
             figma_links |-> figma_links.value,
             design_assets |-> design_assets.value,
             design_decisions |-> design_decisions.value,
             approval |-> approval.value,
             images |-> image_metadata,
             assets_requiring_separate_upload |-> assets_requiring_upload,
             approval_status |-> approval_status,
             parsing_stats |->
                [total_figma_links |-> Len(figma_links.value),
                 total_design_assets |-> Len(design_assets.value),
                 total_design_decisions |-> Len(design_decisions.value),
                 total_images |-> Len(extracted_images),
                 assets_needing_upload |-> Len(assets_requiring_upload),
                 has_figma_links |-> Len(figma_links.value) > 0,
                 has_design_assets |-> Len(design_assets.value) > 0,
                 has_approval |-> DictLen(approval.value) > 0,
                 has_images |-> Len(extracted_images) > 0,
                 template_type |-> "UIUX"]]
    IN IF FirstRaised(reads) # NoException
       THEN Raise(FirstRaised(reads), self, st, uuid_base)
       ELSE Return(
              [title |-> Get(design_overview.value, K.product_name,
                             Get(design_overview.value, K.project_name,
                                 PyStr(<<"U","n","t","i","t","l","e","d"," ","U","I","U","X"," ","P","r","o","j","e","c","t">>))).str,
               category_name |-> <<"U","I","U","X"," ","D","e","s","i","g","n">>,
               template_type |-> "UIUX",
               metadata |-> full_json_metadata,
               errors |-> ex.self.errors,
               extracted_images |-> extracted_images,
               special_requirements |->
                  [separate_asset_upload |-> Len(assets_requiring_upload) > 0,
                   figma_integration |-> Len(figma_links.value) > 0]],
              ex.self, ex.store, ex.uuid_next + Len(image_metadata))

UIUX_process_file(self, f, batch_id, document_id, st, uuid_base) ==
    UIUX_result(self, st, uuid_base,
                WithImages(self, f, batch_id, document_id, st, uuid_base,
                           UIUX_sections(f, self.errors)))

\* sum(item.get('duration_days', 0) for item in dev_estimate): adding a
\* value that is not a number to the running total is a TypeError
DurationDays(item) == Get(item, K.duration_days, PyInt(0))

SumThrows(dev_estimate) ==
    \E i \in 1..Len(dev_estimate) : ~IsInt(DurationDays(dev_estimate[i]))

RECURSIVE SumDurationDays(_)
SumDurationDays(dev_estimate) ==
    IF dev_estimate = << >> THEN 0
    ELSE DurationDays(dev_estimate[1]).int + SumDurationDays(Tail(dev_estimate))

\* EngineerParserService.process_file: the sheet sections, in order
ENGINEER_sections(f, errors) ==
    LET project_info == parse_key_value_sheet(f, errors, "Project Info",
                                              0, 1, DefaultSkipHeaders)
        tech_stack == parse_tech_stack(f, project_info.errors)
        dev_estimate == parse_development_estimate(f, tech_stack.errors)
        arch_documents == parse_architecture_documents(f, dev_estimate.errors)
        infrastructure ==
            parse_key_value_sheet(f, arch_documents.errors, "Infrastructure",
                                  0, 1, DefaultSkipHeaders)
        approval == parse_approval(f, infrastructure.errors, <<"E","N","G","I","N","E","E","R","I","N","G">>)
    IN <<project_info, tech_stack, dev_estimate, arch_documents, infrastructure,
         approval>>

\* EngineerParserService.process_file: the result built from the sections
ENGINEER_result(self, st, uuid_base, run) ==
    LET reads == run.reads
        ex == run.ex
        project_info == reads[1]
        tech_stack == reads[2]
        dev_estimate == reads[3]
        arch_documents == reads[4]
        infrastructure == reads[5]
        approval == reads[6]
        extracted_images == ex.value
        image_metadata == generate_image_metadata(ex.self, ex.uuid_next)
        total_dev_days == SumDurationDays(dev_estimate.value)
        approval_status ==
            Get(approval.value, K.approval_status, PyStr(<<"P","E","N","D","I","N","G">>)).str
        full_json_metadata ==
            [project_info |-> project_info.value,
             tech_stack |-> tech_stack.value,
             development_estimate |-> dev_estimate.value,
             architecture_documents |-> arch_documents.value,
             infrastructure |-> infrastructure.value,
             approval |-> approval.value,
             images |-> image_metadata,
             approval_status |-> approval_status,
             engineering_metrics |->
                [total_development_days |-> total_dev_days,
                 total_phases |-> Len(dev_estimate.value),
                 technologies_count |-> Len(tech_stack.value),
                 architecture_docs_count |-> Len(arch_documents.value)],
             parsing_stats |->
                [total_tech_stack |-> Len(tech_stack.value),
                 total_dev_phases |-> Len(dev_estimate.value),
                 total_arch_docs |-> Len(arch_documents.value),
                 total_images |-> Len(extracted_images),
                 total_dev_days |-> total_dev_days,
                 has_tech_stack |-> Len(tech_stack.value) > 0,
                 has_dev_estimate |-> Len(dev_estimate.value) > 0,
                 has_architecture_docs |-> Len(arch_documents.value) > 0,
                 has_infrastructure |-> DictLen(infrastructure.value) > 0,
                 has_approval |-> DictLen(approval.value) > 0,
                 has_images |-> Len(extracted_images) > 0,
                 template_type |-> "ENGINEER"]]
    IN IF FirstRaised(reads) # NoException
       THEN Raise(FirstRaised(reads), self, st, uuid_base)
       ELSE IF SumThrows(dev_estimate.value)
       THEN Raise("TypeError", ex.self, ex.store, ex.uuid_next + Len(image_metadata))
       ELSE Return(
              [title |-> Get(project_info.value, K.project_name,
                             Get(project_info.value, K.product_name,
                                 PyStr(<<"U","n","t","i","t","l","e","d"," ","E","n","g","i","n","e","e","r","i","n","g"," ","P","r","o","j","e","c","t">>))).str,
               category_name |-> <<"E","n","g","i","n","e","e","r","i","n","g">>,
               template_type |-> "ENGINEER",
               metadata |-> full_json_metadata,
               errors |-> ex.self.errors,
               extracted_images |-> extracted_images,
               special_requirements |->
                  [architecture_diagrams |-> Len(arch_documents.value) > 0,
                   technical_specifications |-> Len(tech_stack.value) > 0]],
              ex.self, ex.store, ex.uuid_next + Len(image_metadata))

ENGINEER_process_file(self, f, batch_id, document_id, st, uuid_base) ==
    ENGINEER_result(self, st, uuid_base,
                    WithImages(self, f, batch_id, document_id, st, uuid_base,
                               ENGINEER_sections(f, self.errors)))

process_file(self, f, batch_id, document_id, st, uuid_base) ==
    CASE self.type = "BA" -> BA_process_file(self, f, batch_id, document_id, st, uuid_base)
      [] self.type = "UIUX" -> UIUX_process_file(self, f, batch_id, document_id, st, uuid_base)
      [] self.type = "ENGINEER" ->
            ENGINEER_process_file(self, f, batch_id, document_id, st, uuid_base)

(***************************************************************************)
(* ParserFactory.create_parser                                             *)
(***************************************************************************)
\* parser_map.get(template_type)
_get_parser_class_or_default(template_type) ==
    IF template_type \in {"UIUX", "ENGINEER", "BA"} THEN template_type ELSE "BA"

_get_parser_class(template_type) ==
    IF template_type \in {"UIUX", "ENGINEER", "BA"} THEN template_type ELSE None

\* BaseParserService.__init__: pd.ExcelFile throws on a buffer that is not a
\* spreadsheet
NewParser(parser_class, f) ==
    IF f.readable
    THEN [raised |-> NoException,
          parser |-> [type |-> parser_class, errors |-> << >>,
                      extracted_images |-> << >>]]
    ELSE [raised |-> "cannot open document", parser |-> NoParser]

create_parser(f, template_type) ==
    LET chosen == IF template_type = None THEN detect_template_type(f)
                  ELSE template_type
        parser_class == _get_parser_class(chosen)
    IN IF parser_class # None
       THEN NewParser(parser_class, f)
       ELSE [raised |-> "Unknown template type", parser |-> NoParser]

(***************************************************************************)
(* validate_template                                                       *)
(***************************************************************************)
validate_templateMajority(t, f) ==
    2 * CountMatches(get_template_sheets(t), f.sheet_names) > Len(get_template_sheets(t))

\* BaseParserService.validate_template of the parser of variant t:
\* matches >= len(expected_sheets) * 0.5
validate_template(t, f) ==
    2 * CountMatches(get_template_sheets(t), f.sheet_names) >= Len(get_template_sheets(t))

\* One entry of the results dictionary: parser_class(file_content) throws on
\* an unreadable buffer
ValidationEntry(t, f) ==
    IF f.readable
    THEN [valid |-> validate_template(t, f),
          sheets_found |-> f.sheet_names,
          expected_sheets |-> get_template_sheets(t)]
    ELSE [valid |-> FALSE, error |-> "cannot open document"]

\* ParserFactory.validate_template. With a template type the whole lookup
\* runs inside try/except. Without one every registered parser is tried, and
\* the handler of a failed construction builds parser_class(b"dummy"), which
\* throws again and leaves the method.
ParserFactory_validate_template(f, template_type) ==
    IF template_type \notin {None, ""}
    THEN [raised |-> NoException,
          results |-> [k \in {template_type} |->
                         IF _get_parser_class(template_type) # None
                         THEN ValidationEntry(_get_parser_class(template_type), f)
                         ELSE [valid |-> FALSE, error |-> "Unknown template type"]]]
    ELSE IF f.readable
    THEN [raised |-> NoException,
          results |-> [k \in Range(_parsers) |-> ValidationEntry(k, f)]]
    ELSE [raised |-> "cannot open document", results |-> NoResult]

(***************************************************************************)
(* Documents the parsers are run on                                        *)
(***************************************************************************)
KeyValueGrid ==
    <<<<Text(<<"F","i","e","l","d">>), Text(<<"V","a","l","u","e">>)>>,
      <<Text(<<"P","r","o","d","u","c","t"," ","N","a","m","e">>), Text(<<"A","l","p","h","a">>)>>,
      <<Text(<<"C","a","t","e","g","o","r","y">>), Text(<<"C","o","r","e">>)>>,
      <<Text(<<"S","t","a","t","u","s">>), Text(<<"a","p","p","r","o","v","e","d">>)>>,
      <<Text(<<"O","w","n","e","r">>), NaN>>>>

OneColumnGrid ==
    <<<<Text(<<"F","i","e","l","d">>)>>,
      <<Text(<<"P","r","o","d","u","c","t"," ","N","a","m","e">>)>>>>

StoryGrid ==
    <<<<Text(<<"S","t","o","r","y">>), Text(<<"P","o","i","n","t","s">>)>>,
      <<Text(<<"L","o","g","i","n">>), Text(<<"3">>)>>>>

FigmaGrid ==
    <<<<Text(<<"f","i","g","m","a","_","u","r","l">>)>>,
      <<Text(<<"h","t","t","p","s",":","/","/","f","i","g","m","a",".","c","o","m","/","f","i","l","e","/","a","b","c","1","/","H","o","m","e">>)>>,
      <<Text(<<" ","n","a","n"," ">>)>>>>

AssetGrid ==
    <<<<Text(<<"a","s","s","e","t","_","n","a","m","e">>), Text(<<"f","i","l","e","_","t","y","p","e">>)>>,
      <<Text(<<"L","o","g","i","n"," ","m","o","c","k","u","p">>), Text(<<"p","n","g">>)>>,
      <<Text(<<"L","o","g","o">>), Text(<<"f","i","g">>)>>>>

TechGrid ==
    <<<<Text(<<"l","a","y","e","r">>), Text(<<"t","e","c","h","n","o","l","o","g","y">>)>>,
      <<Text(<<"W","e","b"," ","U","I">>), Text(<<"R","e","a","c","t">>)>>,
      <<Text(<<"S","t","o","r","a","g","e">>), Text(<<"P","o","s","t","g","r","e","s">>)>>>>

EstimateGrid ==
    <<<<Text(<<"p","h","a","s","e">>), Text(<<"d","u","r","a","t","i","o","n">>), Text(<<"s","t","a","r","t","_","d","a","t","e">>)>>,
      <<Text(<<"D","e","s","i","g","n">>), Text(<<"3"," ","w","e","e","k","s">>), NaN>>,
      <<Text(<<"B","u","i","l","d">>), Text(<<"2"," ","m","o","n","t","h","s">>), Text(<<"2","0","2","6","-","0","1","-","0","5">>)>>>>

DurationDaysGrid ==
    <<<<Text(<<"p","h","a","s","e">>), Text(<<"d","u","r","a","t","i","o","n","_","d","a","y","s">>)>>,
      <<Text(<<"D","e","s","i","g","n">>), Text(<<"5">>)>>>>

ArchitectureGrid ==
    <<<<Text(<<"d","o","c","u","m","e","n","t","_","n","a","m","e">>), Text(<<"t","y","p","e">>)>>,
      <<Text(<<"A","P","I"," ","s","c","h","e","m","a">>), Text(<<"p","d","f">>)>>>>

\* An approval sheet whose status is none of the three known ones, and one
\* without a status row
OnHoldGrid ==
    <<<<Text(<<"F","i","e","l","d">>), Text(<<"V","a","l","u","e">>)>>,
      <<Text(<<"R","e","v","i","e","w","e","r">>), Text(<<"Q","A">>)>>,
      <<Text(<<"S","t","a","t","u","s">>), Text(<<"o","n"," ","h","o","l","d">>)>>>>

NoStatusGrid ==
    <<<<Text(<<"F","i","e","l","d">>), Text(<<"V","a","l","u","e">>)>>,
      <<Text(<<"R","e","v","i","e","w","e","r">>), Text(<<"Q","A">>)>>>>

KeyValueSheets ==
    {"Product Overview", "Business Value", "BA Approval", "Design Overview",
     "Approval", "Project Info", "Infrastructure"}

\* The grid a sheet of the given name usually carries, and the grids the
\* documents below draw from
DefaultGrid(n) ==
    CASE n \in KeyValueSheets -> KeyValueGrid
      [] n \in {"User Story", "Acceptance Criteria", "Design Decisions"} -> StoryGrid
      [] n = "Figma Links" -> FigmaGrid
      [] n = "Design Assets" -> AssetGrid
      [] n = "Tech Stack" -> TechGrid
      [] n = "Development Estimate" -> EstimateGrid
      [] n = "Architecture Documents" -> ArchitectureGrid
      [] OTHER -> EmptyGrid

GridsFor(n) ==
    {DefaultGrid(n)} \cup
    (CASE n \in {"Approval", "BA Approval"} ->
              {OneColumnGrid, OnHoldGrid, NoStatusGrid}
       [] n \in KeyValueSheets -> {OneColumnGrid}
       [] n = "Development Estimate" -> {DurationDaysGrid}
       [] OTHER -> {})

\* Every way of giving each sheet of S one of its grids
RECURSIVE GridChoices(_)
GridChoices(S) ==
    IF S = {} THEN {<< >>}
    ELSE LET n == CHOOSE x \in S : TRUE
         IN {(n :> g) @@ h : g \in GridsFor(n), h \in GridChoices(S \ {n})}

\* The sets of at most k sheet names
RECURSIVE SheetSets(_)
SheetSets(k) ==
    IF k = 0 THEN {{}}
    ELSE LET smaller == SheetSets(k - 1)
         IN smaller \cup {X \cup {n} : X \in smaller, n \in AllSheetNames}

EmbeddedImage(sheet) ==
    [sheet |-> sheet, media |-> <<"x","l","/","m","e","d","i","a","/","i","m","a","g","e","1",".","p","n","g">>, size |-> 1024,
     magic |-> "PNG", has_data |-> TRUE, decodable |-> TRUE, fails |-> {},
     width |-> 4, height |-> 3]

\* Documents with at most MaxSheets sheets, at most MaxCorrupt of them
\* damaged and at most one embedded image (anchored in the only sheet)
CorruptChoices(S, g) ==
    {c \in SUBSET {n \in S : g[n] = DefaultGrid(n)} :
        Cardinality(c) <= MaxCorrupt}

ImageChoices(S, c) ==
    {<< >>} \cup (IF c = {} /\ Cardinality(S) = 1
                  THEN {<<EmbeddedImage(CHOOSE n \in S : TRUE)>>} ELSE {})

FilesWith(S, g, c) ==
    {[readable |-> TRUE,
      sheet_names |-> SelectSeq(AllSheetOrder, LAMBDA n : n \in S),
      sheets |-> g,
      corrupt |-> c,
      images |-> im] : im \in ImageChoices(S, c)}

FilesOn(S) ==
    UNION {UNION {FilesWith(S, g, c) : c \in CorruptChoices(S, g)} :
             g \in GridChoices(S)}

ParseFiles ==
    UNION {FilesOn(S) :
             S \in SheetSets(MaxSheets) \ {{}}}

\* The k-th embedded image of a document with sheets S: anchored in one of
\* the sheets, stored under xl/media/ (the second one possibly in a folder
\* of its own under the name of the first), of one of two byte lengths, and
\* healthy, without byte data in the structured model, not decodable, or
\* throwing in one of the two passes
ImageAt(k, S) ==
    {[sheet |-> n, media |-> m, size |-> z, magic |-> "PNG",
      has_data |-> p.has_data, decodable |-> p.decodable, fails |-> p.fails,
      width |-> 4, height |-> 3] :
        n \in S,
        m \in CASE k = 1 -> {<<"x","l","/","m","e","d","i","a","/","i","m","a","g","e","1",".","p","n","g">>}
               [] k = 2 -> {<<"x","l","/","m","e","d","i","a","/","i","m","a","g","e","2",".","p","n","g">>,
                            <<"x","l","/","m","e","d","i","a","/","o","l","d","/","i","m","a","g","e","1",".","p","n","g">>}
               [] OTHER -> {<<"x","l","/","m","e","d","i","a","/","i","m","a","g","e","3",".","p","n","g">>},
        z \in IF k = 2 THEN {1024, 2048} ELSE {1024},
        p \in {[has_data |-> TRUE, decodable |-> TRUE, fails |-> {}]}
               \cup IF k > 2 THEN {}
                    ELSE {[has_data |-> FALSE, decodable |-> TRUE, fails |-> {}],
                          [has_data |-> TRUE, decodable |-> FALSE, fails |-> {}],
                          [has_data |-> TRUE, decodable |-> TRUE, fails |-> {"openpyxl"}],
                          [has_data |-> TRUE, decodable |-> TRUE, fails |-> {"zip"}]}}

RECURSIVE ImageSeqs(_, _)
ImageSeqs(k, S) ==
    IF k = 0 THEN {<< >>}
    ELSE ImageSeqs(k - 1, S)
         \cup {Append(images, img) : images \in {x \in ImageSeqs(k - 1, S) : Len(x) = k - 1},
                                      img \in ImageAt(k, S)}

\* Readable documents with up to MaxImages embedded images
ImageFiles ==
    UNION {{[readable |-> TRUE,
             sheet_names |-> SelectSeq(AllSheetOrder, LAMBDA n : n \in S),
             sheets |-> g,
             corrupt |-> {},
             images |-> images] : g \in {h \in GridChoices(S) : \A n \in S : h[n] # OneColumnGrid},
                                  images \in ImageSeqs(MaxImages, S)} :
           S \in {{"Product Overview"}, {"Design Overview"},
                  {"Product Overview", "Design Overview"}, {"Development Estimate"}}}

\* Texts of up to k characters over the letters of 'nan' in both cases, a
\* blank and another letter
RECURSIVE Texts(_)
Texts(k) ==
    IF k = 0 THEN {<< >>}
    ELSE Texts(k - 1)
         \cup {Append(t, c) : t \in {x \in Texts(k - 1) : Len(x) = k - 1},
                               c \in {"n", "a", "N", "A", " ", "x"}}

\* Documents of one sheet with one cell, which holds the raw value handed to
\* clean_value
CleanFiles ==
    LET margins == {<< >>, <<" ">>, <<"\t">>}
        values ==
            {NaN, [kind |-> "none", s |-> << >>], [kind |-> "nat", s |-> << >>]}
            \cup {Text(before \o t \o after) :
                      before \in margins, t \in Texts(MaxLen), after \in margins}
            \cup {[kind |-> "int", n |-> n] : n \in {0 - 12, 0, 7, 2024}}
            \cup {[kind |-> "datetime", year |-> y, month |-> m, day |-> d, hour |-> h] :
                      y \in {1999, 2024}, m \in {1, 12}, d \in {5, 31}, h \in {0, 13}}
    IN {[readable |-> TRUE,
         sheet_names |-> <<"Notes">>,
         sheets |-> [n \in {"Notes"} |-> <<<<val>>>>],
         corrupt |-> {},
         images |-> << >>] : val \in values}

\* The sequences of at most k rows drawn from a set of rows
RECURSIVE RowSeqs(_, _)
RowSeqs(k, rows) ==
    IF k = 0 THEN {<< >>}
    ELSE RowSeqs(k - 1, rows)
         \cup {Append(g, row) : g \in {x \in RowSeqs(k - 1, rows) : Len(x) = k - 1},
                                 row \in rows}

\* The grids a sheet read on its own carries: key and value rows for a
\* key-value sheet, a header row and data rows for a tabular sheet
SheetGrids(n) ==
    LET pairs(A, B) == {<<a, b>> : a \in A, b \in B}
        under(headers, rows) ==
            {<<header>> \o g : header \in headers, g \in RowSeqs(MaxRows, rows)}
    IN CASE n = "Product Overview" ->
              RowSeqs(MaxRows, pairs({NaN, Text(<<"F","i","e","l","d">>), Text(<<"P","r","o","d","u","c","t"," ","N","a","m","e">>), Text(<<"p","r","o","d","u","c","t"," ","n","a","m","e",":">>), Text(<<"A","/","B"," ","(","x",")">>)},
                                     {NaN, Text(<<"x">>), Text(<<"W","i","d","g","e","t">>)}))
         [] n = "User Story" ->
              {EmptyGrid} \cup
              under({<<Text(<<"S","t","o","r","y">>), Text(<<"P","o","i","n","t","s">>)>>, <<NaN, Text(<<"P","o","i","n","t","s">>)>>},
                    pairs({NaN, Text(<<"L","o","g","i","n">>), Text(<<" ","x"," ">>)}, {NaN, Text(<<"3">>)}))
         [] n = "Tech Stack" ->
              under({<<Text(<<"l","a","y","e","r">>), Text(<<"t","e","c","h","n","o","l","o","g","y">>)>>, <<Text(<<"L","a","y","e","r">>), Text(<<"t","e","c","h","n","o","l","o","g","y">>)>>, <<Text(<<"n","a","m","e">>), Text(<<"t","e","c","h","n","o","l","o","g","y">>)>>},
                    pairs({NaN, Text(<<"F","r","o","n","t","e","n","d">>),
                           Text(<<"W","e","b"," ","U","I">>),
                           Text(<<"B","a","c","k","e","n","d">>),
                           Text(<<"U","I"," ","A","P","I">>),
                           Text(<<"D","a","t","a"," ","A","P","I">>),
                           Text(<<"D","a","t","a","b","a","s","e">>),
                           Text(<<"Q","A"," ","D","a","t","a">>),
                           Text(<<"D","e","v","O","p","s">>),
                           Text(<<"I","n","f","r","a","s","t","r","u","c","t","u","r","e">>),
                           Text(<<"T","e","s","t","i","n","g">>),
                           Text(<<"Q","A">>),
                           Text(<<"B","u","i","l","d">>),
                           Text(<<"O","t","h","e","r">>)},
                          {Text(<<"R","e","a","c","t">>)}))
         [] n = "Development Estimate" ->
              under({<<Text(<<"p","h","a","s","e">>), Text(<<"d","u","r","a","t","i","o","n">>)>>, <<Text(<<"p","h","a","s","e">>), Text(<<"e","f","f","o","r","t">>)>>, <<Text(<<"p","h","a","s","e">>), Text(<<"d","u","r","a","t","i","o","n","_","d","a","y","s">>)>>},
                    pairs({Text(<<"D","e","s","i","g","n">>)},
                          {NaN, Text(<<"3"," ","w","e","e","k","s">>),
                           Text(<<"1","0"," ","d","a","y","s">>),
                           Text(<<"2"," ","m","o","n","t","h","s">>),
                           Text(<<"u","n","k","n","o","w","n">>),
                           Text(<<"1"," ","W","E","E","K">>),
                           Text(<<"1","2">>),
                           Text(<<"w","e","e","k","s">>),
                           Text(<<"0"," ","d","a","y","s">>),
                           Text(<<"5"," ","h","o","u","r","s">>),
                           Text(<<"2","1","d","a","y","s">>),
                           Text(<<"M","o","n","d","a","y">>)}))

\* Documents of one sheet, readable or damaged, for the sheet readers
SheetFiles ==
    UNION {{[readable |-> TRUE,
             sheet_names |-> <<n>>,
             sheets |-> [k \in {n} |-> g],
             corrupt |-> c,
             images |-> << >>] :
                g \in SheetGrids(n),
                c \in {{}} \cup {{m} : m \in {n} \ {"Tech Stack", "Development Estimate"}}} :
           n \in {"Product Overview", "User Story", "Tech Stack", "Development Estimate"}}

FactoryFiles ==
    {UnreadableFile} \cup {SheetsOnlyFile(S) : S \in (SUBSET AllSheetNames) \ {{}}}

(***************************************************************************)
(* State machine                                                           *)
(***************************************************************************)
NoRequest == [template_type |-> "unset", batch_id |-> "unset", document_id |-> "unset"]

RequestTypes == TemplateTypes \cup {None, "XYZ", "ba", ""}
CorrelationIds ==
    {<<None, None>>, <<"B1", None>>, <<None, "D1">>, <<"B1", "">>, <<"B1", "D1">>}

InitWith(files, writable) ==
    /\ file \in files
    /\ request = NoRequest
    /\ pc = "start"
    /\ detected = "unset"
    /\ parser_scores = << >>
    /\ parser = NoParser
    /\ result = NoResult
    /\ raised = NoException
    /\ store \in {[files |-> {}, overwritten |-> {}, writable |-> w] : w \in writable}
    /\ uuid_next = 0
    /\ returned = << >>
    /\ batch = NoBatch

InitFactory == InitWith(FactoryFiles, {TRUE})
InitParse == InitWith(ParseFiles, {TRUE})

\* The results handed out after a process_file call. The dictionary returned
\* holds self.errors itself, not a copy, so every result handed out earlier
\* reads the errors list as the call left it; its extracted_images is the
\* list built for its own call, which no later call touches.
Handed(earlier, done) ==
    [i \in 1..Len(earlier) |->
        [earlier[i] EXCEPT !.now.errors = done.self.errors]]
    \o (IF done.raised = NoException
        THEN <<[as_returned |-> done.result, now |-> done.result]>>
        ELSE << >>)

\* A caller runs ParserFactory.detect_template_type(file_content)
DetectTemplateType ==
    /\ pc = "start"
    /\ detected' = detect_template_type(file)
    /\ parser_scores' = IF file.readable THEN ComputeScores(file) ELSE << >>
    /\ pc' = "detected"
    /\ UNCHANGED <<file, request, parser, result, raised, store, uuid_next, returned, batch>>

\* A caller runs ParserFactory.create_parser(file_content, template_type)
CreateParser(template_type) ==
    /\ pc = "start"
    /\ request' = [request EXCEPT !.template_type = template_type]
    /\ \E created \in {create_parser(file, template_type)} :
          /\ parser' = created.parser
          /\ raised' = created.raised
          /\ pc' = IF created.raised = NoException THEN "created" ELSE "create_raised"
    /\ detected' = IF template_type = None THEN detect_template_type(file) ELSE detected
    /\ parser_scores' = IF template_type = None /\ file.readable
                        THEN ComputeScores(file) ELSE parser_scores
    /\ UNCHANGED <<file, result, store, uuid_next, returned, batch>>

\* A caller runs ParserFactory.validate_template(file_content, template_type)
ValidateTemplate(template_type) ==
    /\ pc = "start"
    /\ request' = [request EXCEPT !.template_type = template_type]
    /\ \E validated \in {ParserFactory_validate_template(file, template_type)} :
          /\ result' = validated.results
          /\ raised' = validated.raised
          /\ pc' = IF validated.raised = NoException THEN "validated"
                   ELSE "validate_raised"
    /\ UNCHANGED <<file, detected, parser_scores, parser, store, uuid_next, returned, batch>>

\* A section reader hands the cell to clean_value
CleanValue ==
    /\ pc = "start"
    /\ result' = PyStr(clean_value(file.sheets["Notes"][1][1]))
    /\ raised' = NoException
    /\ pc' = "cleaned"
    /\ UNCHANGED <<file, request, detected, parser_scores, parser, store, uuid_next, returned, batch>>

\* The cleaned text is handed to clean_value once more
CleanAgain ==
    /\ pc = "cleaned"
    /\ result' = PyStr(clean_value(Text(result.str)))
    /\ raised' = NoException
    /\ pc' = "cleaned_again"
    /\ UNCHANGED <<file, request, detected, parser_scores, parser, store, uuid_next, returned, batch>>

\* A parser reads one key-value sheet with the default columns and
\* skip-headers
ParseKeyValueSheet(sheet_name) ==
    /\ pc = "start"
    /\ request' = [request EXCEPT !.template_type = sheet_name]
    /\ result' = parse_key_value_sheet(file, << >>, sheet_name, 0, 1, DefaultSkipHeaders)
    /\ raised' = NoException
    /\ pc' = "read_key_value"
    /\ UNCHANGED <<file, detected, parser_scores, parser, store, uuid_next, returned, batch>>

\* A parser reads one tabular sheet
ParseTabularSheet(sheet_name) ==
    /\ pc = "start"
    /\ request' = [request EXCEPT !.template_type = sheet_name]
    /\ result' = parse_tabular_sheet(file, << >>, sheet_name)
    /\ raised' = NoException
    /\ pc' = "read_tabular"
    /\ UNCHANGED <<file, detected, parser_scores, parser, store, uuid_next, returned, batch>>

\* except Exception as e: db.rollback(); batch.status = 'FAILED';
\* batch.error_log = {"critical_error": str(e)}; batch.failed_count = 1
Failed(b, e) ==
    [b EXCEPT !.status = "FAILED",
              !.error_log = [critical_error |-> e],
              !.failed_count = 1]

\* The end of the try block of process_upload_background_with_template:
\* the errors of the result go to error_log, the category and the document
\* are written (the database may refuse), a failure to save the images is
\* swallowed, and the batch is completed with the row count of its template
Completed(b, res) ==
    IF ~b.db_ok THEN Failed(b, "database error")
    ELSE [b EXCEPT !.status = "COMPLETED",
                   !.success_count = 1,
                   !.error_log = IF res.errors # << >> THEN res.errors ELSE @,
                   !.total_rows =
                       CASE res.template_type = "BA" ->
                               res.metadata.parsing_stats.total_us
                         [] res.template_type = "UIUX" ->
                               res.metadata.parsing_stats.total_figma_links
                         [] res.template_type = "ENGINEER" ->
                               res.metadata.parsing_stats.total_tech_stack]

\* process_upload_background: detection and create_parser run, and the
\* argument str(new_batch.id) of process_file names a variable the function
\* does not have, so NameError is raised before process_file is entered and
\* the handler fails the batch
ProcessUploadBackground ==
    /\ pc = "start"
    /\ batch.status = "PROCESSING"
    /\ request' = [request EXCEPT !.template_type = None]
    /\ detected' = detect_template_type(file)
    /\ parser_scores' = IF file.readable THEN ComputeScores(file) ELSE parser_scores
    /\ \E created \in {create_parser(file, None)} :
          /\ parser' = created.parser
          /\ batch' = IF created.raised # NoException
                      THEN Failed(batch, created.raised)
                      ELSE Failed(batch, "NameError")
    /\ raised' = NoException
    /\ pc' = "background_done"
    /\ UNCHANGED <<file, result, store, uuid_next, returned>>

\* process_upload_background_with_template: the parser of the explicit
\* template type, or of the detected one, processes the file under the
\* batch id as batch id and as document id
ProcessUploadBackgroundWithTemplate(template_type) ==
    /\ pc = "start"
    /\ batch.status = "PROCESSING"
    /\ request' = [template_type |-> template_type, batch_id |-> "B1", document_id |-> "B1"]
    /\ detected' = IF Falsy(template_type) THEN detect_template_type(file) ELSE detected
    /\ parser_scores' = IF Falsy(template_type) /\ file.readable
                        THEN ComputeScores(file) ELSE parser_scores
    /\ \E created \in {create_parser(file, IF Falsy(template_type) THEN None
                                             ELSE template_type)} :
          IF created.raised # NoException
          THEN /\ batch' = Failed(batch, created.raised)
               /\ parser' = created.parser
               /\ UNCHANGED <<result, store, uuid_next, returned>>
          ELSE \E done \in {process_file(created.parser, file, "B1", "B1", store, uuid_next)} :
                  /\ result' = done.result
                  /\ parser' = done.self
                  /\ store' = done.store
                  /\ uuid_next' = done.uuid_next
                  /\ returned' = Handed(returned, done)
                  /\ batch' = IF done.raised # NoException
                              THEN Failed(batch, done.raised)
                              ELSE Completed(batch, done.result)
    /\ raised' = NoException
    /\ pc' = "with_template_done"
    /\ UNCHANGED file

\* The caller runs parser.process_file(batch_id, document_id)
ProcessFile(batch_id, document_id) ==
    /\ pc = "created"
    /\ request' = [request EXCEPT !.batch_id = batch_id, !.document_id = document_id]
    /\ \E done \in {process_file(parser, file, batch_id, document_id, store, uuid_next)} :
          /\ result' = done.result
          /\ raised' = done.raised
          /\ parser' = done.self
          /\ store' = done.store
          /\ uuid_next' = done.uuid_next
          /\ pc' = IF done.raised = NoException THEN "done" ELSE "process_raised"
          /\ returned' = Handed(returned, done)
    /\ UNCHANGED <<file, detected, parser_scores, batch>>

\* The caller runs process_file of the same parser once more
ProcessFileAgain(batch_id, document_id) ==
    /\ pc = "done"
    /\ request' = [request EXCEPT !.batch_id = batch_id, !.document_id = document_id]
    /\ \E done \in {process_file(parser, file, batch_id, document_id, store, uuid_next)} :
          /\ result' = done.result
          /\ raised' = done.raised
          /\ parser' = done.self
          /\ store' = done.store
          /\ uuid_next' = done.uuid_next
          /\ pc' = IF done.raised = NoException THEN "done_again" ELSE "process_raised"
          /\ returned' = Handed(returned, done)
    /\ UNCHANGED <<file, detected, parser_scores, batch>>

NextFactory ==
    \/ DetectTemplateType
    \/ \E template_type \in RequestTypes : CreateParser(template_type)
    \/ \E template_type \in RequestTypes : ValidateTemplate(template_type)

NextParse ==
    \/ \E template_type \in TemplateTypes \cup {None} : CreateParser(template_type)
    \/ \E ids \in CorrelationIds : ProcessFile(ids[1], ids[2])

InitImages == InitWith(ImageFiles, {TRUE, FALSE})

NextImages ==
    \/ CreateParser(None)
    \/ \E ids \in CorrelationIds : ProcessFile(ids[1], ids[2])
    \/ \E ids \in {<<None, None>>, <<"B1", "">>, <<"B1", "D1">>} :
          ProcessFileAgain(ids[1], ids[2])

SpecImages == InitImages /\ [][NextImages]_vars

NextClean ==
    \/ CleanValue
    \/ CleanAgain

SpecClean == InitWith(CleanFiles, {TRUE}) /\ [][NextClean]_vars

NextSheets ==
    \/ ParseKeyValueSheet("Product Overview")
    \/ \E sheet_name \in {"User Story", "Tech Stack", "Development Estimate"} :
          ParseTabularSheet(sheet_name)
    \/ CreateParser("ENGINEER")
    \/ ProcessFile(None, None)

SpecSheets == InitWith(SheetFiles, {TRUE}) /\ [][NextSheets]_vars

\* upload_document has stored the ImportBatch row with status PROCESSING
InitUpload ==
    /\ file \in ParseFiles \cup {UnreadableFile}
    /\ request = NoRequest
    /\ pc = "start"
    /\ detected = "unset"
    /\ parser_scores = << >>
    /\ parser = NoParser
    /\ result = NoResult
    /\ raised = NoException
    /\ store = [files |-> {}, overwritten |-> {}, writable |-> TRUE]
    /\ uuid_next = 0
    /\ returned = << >>
    /\ batch \in {[status |-> "PROCESSING", total_rows |-> 0, success_count |-> 0,
                    failed_count |-> 0, error_log |-> PyNone, db_ok |-> ok] :
                      ok \in BOOLEAN}

NextUpload ==
    \/ ProcessUploadBackground
    \/ \E template_type \in RequestTypes : ProcessUploadBackgroundWithTemplate(template_type)

SpecUpload == InitUpload /\ [][NextUpload]_vars

SpecFactory == InitFactory /\ [][NextFactory]_vars
SpecParse == InitParse /\ [][NextParse]_vars

Init == InitParse
Next == NextParse
Spec == SpecParse

(***************************************************************************)
(* Classification properties (SpecFactory)                                 *)
(***************************************************************************)
Present == Range(file.sheet_names)
Expected(t) == Range(get_template_sheets(t))
Recognized == UNION {Expected(t) : t \in TemplateTypes}

\* Registration position of a template type
Registered(t) == CHOOSE i \in 1..Len(_parsers) : _parsers[i] = t

\* The score the specification gives a variant, as numerator and denominator
ExpectedNum(t) == Cardinality(Expected(t) \cap Present) * get_template_priority(t)
ExpectedDen(t) == Cardinality(Expected(t))

EntryOf(t) ==
    parser_scores[CHOOSE i \in 1..Len(parser_scores) :
                     parser_scores[i].template_type = t]

\* The variants no other variant outscores, by the recorded scores
TopScored ==
    {t \in TemplateTypes :
        \A u \in TemplateTypes : ~ScoreLess(EntryOf(t).score, EntryOf(u).score)}

Detected == pc = "detected"

\* C1: detect_template_type returns exactly one tag, one of BA, UIUX and
\* ENGINEER, for every buffer, readable or not; it never returns an empty
\* value and never raises.
C1_DetectReturnsKnownTag ==
    Detected => /\ detected \in TemplateTypes
                /\ raised = NoException

C1_Witness ==
    /\ Detected
    /\ file.readable
    /\ Present \cap Recognized = {"Approval"}
    /\ detected \in TemplateTypes

\* C2: with auto-detection a readable document holding none of the expected
\* sheet names of any variant is classified as BA.
C2_UnrecognizedIsBA ==
    (Detected /\ file.readable /\ Present \cap Recognized = {}) => detected = "BA"

\* C3: a document whose sheet names are exactly the expected sheet names of
\* one variant is classified as that variant.
C3_ExactSheetsClassified ==
    \A t \in TemplateTypes :
        (Detected /\ file.readable /\ Present = Expected(t)) => detected = t

C3_Witness ==
    /\ Detected
    /\ Present = Expected("UIUX")
    /\ detected = "UIUX"

C5_ScoreFormulaAndMaximum ==
    (Detected /\ file.readable) =>
        /\ {parser_scores[i].template_type : i \in 1..Len(parser_scores)} = TemplateTypes
        /\ Len(parser_scores) = Cardinality(TemplateTypes)
        /\ \A t \in TemplateTypes :
              IF ExpectedDen(t) = 0
              THEN EntryOf(t).score.num = 0
              ELSE EntryOf(t).score.num * ExpectedDen(t)
                     = ExpectedNum(t) * EntryOf(t).score.den
        /\ \A t \in TemplateTypes :
              ExpectedNum(t) * ExpectedDen(detected)
                 <= ExpectedNum(detected) * ExpectedDen(t)

C5_Witness ==
    /\ Detected
    /\ detected = "ENGINEER"
    /\ Cardinality(Present \cap Expected("BA")) = 5
    /\ Cardinality(Present \cap Expected("UIUX")) = 2

\* C6: a buffer that cannot be opened as a spreadsheet makes
\* detect_template_type return BA without raising.
C6_UnreadableIsBA ==
    (Detected /\ ~file.readable) => /\ detected = "BA"
                                    /\ raised = NoException

C6_Witness ==
    /\ Detected
    /\ ~file.readable
    /\ detected = "BA"

\* C7: create_parser with an explicit tag among BA, UIUX, ENGINEER returns a
\* parser of exactly that type whatever sheets the document holds, without
\* running detection; with any other explicit tag it signals "Unknown
\* template type" and returns no parser.
Explicit == request.template_type \notin {None, "unset"}

C7_ExplicitTypeHonoured ==
    (pc \in {"created", "create_raised"} /\ Explicit) =>
        /\ (request.template_type \in TemplateTypes /\ file.readable) =>
              /\ pc = "created"
              /\ parser.type = request.template_type
              /\ detected = "unset"
        /\ request.template_type \notin TemplateTypes =>
              /\ pc = "create_raised"
              /\ raised = "Unknown template type"
              /\ parser = NoParser

C7_Witness ==
    /\ pc = "created"
    /\ request.template_type = "BA"
    /\ Present = Expected("UIUX")
    /\ parser.type = "BA"

(***************************************************************************)
(* Parsing properties (SpecParse)                                          *)
(***************************************************************************)
\* The part of a ParseResult that holds the section read from a sheet
SectionOf(res, t, sheet_name) ==
    CASE t = "BA" /\ sheet_name = "Product Overview" -> res.metadata.product_details
      [] t = "BA" /\ sheet_name = "User Story" -> res.metadata.user_stories
      [] t = "BA" /\ sheet_name = "Acceptance Criteria" -> res.metadata.acceptance_criteria
      [] t = "BA" /\ sheet_name = "Business Value" -> res.metadata.business_values
      [] t = "BA" /\ sheet_name = "BA Approval" -> res.metadata.ba_approval
      [] t = "UIUX" /\ sheet_name = "Design Overview" -> res.metadata.design_overview
      [] t = "UIUX" /\ sheet_name = "Figma Links" -> res.metadata.figma_links
      [] t = "UIUX" /\ sheet_name = "Design Assets" -> res.metadata.design_assets
      [] t = "UIUX" /\ sheet_name = "Design Decisions" -> res.metadata.design_decisions
      [] t = "UIUX" /\ sheet_name = "Approval" -> res.metadata.approval
      [] t = "ENGINEER" /\ sheet_name = "Project Info" -> res.metadata.project_info
      [] t = "ENGINEER" /\ sheet_name = "Tech Stack" -> res.metadata.tech_stack
      [] t = "ENGINEER" /\ sheet_name = "Development Estimate" ->
            res.metadata.development_estimate
      [] t = "ENGINEER" /\ sheet_name = "Architecture Documents" ->
            res.metadata.architecture_documents
      [] t = "ENGINEER" /\ sheet_name = "Infrastructure" -> res.metadata.infrastructure
      [] t = "ENGINEER" /\ sheet_name = "Approval" -> res.metadata.approval

EmptyShape == << >>

Processed == pc \in {"done", "process_raised"}
AutoDetected == request.template_type = None

\* The sections of the running parser whose sheet is present and cannot be
\* read: the sheet is damaged, or a two-column read meets a one-column sheet
FailingSections ==
    {n \in Expected(parser.type) \cap Present :
        \/ n \in file.corrupt
        \/ n \in KeyValueSheets /\ ColumnMissing(file.sheets[n], 1)}

\* The same document with every sheet readable as far as its cells allow
Undamaged == [file EXCEPT !.corrupt = {}]

UndamagedResult ==
    process_file([type |-> parser.type, errors |-> << >>, extracted_images |-> << >>],
                 Undamaged, request.batch_id, request.document_id,
                 [files |-> {}, overwritten |-> {}, writable |-> TRUE], 0).result

\* C8: create_parser without an explicit type followed by process_file
\* always returns a ParseResult; no exception leaves the entry point.
C8_EntryPointAlwaysReturns ==
    AutoDetected => /\ pc \notin {"create_raised", "process_raised"}
                    /\ raised = NoException

\* C9: for every variant, when reading one section's sheet throws,
\* process_file still returns a ParseResult, with an error string for that
\* sheet in errors, that section empty, and every other section as it is
\* parsed when nothing fails.
C9_SectionFailureIsolated ==
    (Processed /\ FailingSections # {}) =>
        /\ pc = "done"
        /\ \A n \in FailingSections :
              /\ ParseError(n) \in Range(result.errors)
              /\ SectionOf(result, parser.type, n) = EmptyShape
        /\ \A n \in Expected(parser.type) \ file.corrupt :
              SectionOf(result, parser.type, n)
                 = SectionOf(UndamagedResult, parser.type, n)

\* C10: an expected sheet that is absent from the document yields the empty
\* shape of its section and no error; a document holding only a Product
\* Overview sheet with product_name Alpha and category Core parses as BA
\* with that title and category, every other section empty and no errors.
OnlyProductOverview ==
    /\ Present = {"Product Overview"}
    /\ file.sheets["Product Overview"] = KeyValueGrid
    /\ file.corrupt = {}

C10_AbsentSheetIsEmptyWithoutError ==
    pc = "done" =>
        /\ \A n \in Expected(parser.type) \ Present :
              /\ SectionOf(result, parser.type, n) = EmptyShape
              /\ ParseError(n) \notin Range(result.errors)
        /\ (AutoDetected /\ OnlyProductOverview) =>
              /\ result.template_type = "BA"
              /\ result.title = <<"A","l","p","h","a">>
              /\ result.category_name = <<"C","o","r","e">>
              /\ \A n \in Expected("BA") \ {"Product Overview"} :
                    SectionOf(result, "BA", n) = EmptyShape
              /\ result.errors = << >>

C10_Witness ==
    /\ pc = "done"
    /\ AutoDetected
    /\ OnlyProductOverview
    /\ result.title = <<"A","l","p","h","a">>
    /\ result.metadata.parsing_stats.total_us = 0

\* C11: in every ParseResult of every variant each parsing_stats count is
\* the length of the corresponding list or mapping of the same result, and
\* each has_* flag is true exactly when that count is greater than zero.
Size(d) == Cardinality(DOMAIN d)

StatsAgree ==
    LET m == result.metadata
        stats == m.parsing_stats
    IN /\ stats.total_images = Len(result.extracted_images)
       /\ stats.has_images <=> stats.total_images > 0
       /\ CASE result.template_type = "BA" ->
                 /\ stats.total_us = Len(m.user_stories)
                 /\ stats.total_ac = Len(m.acceptance_criteria)
                 /\ stats.total_bv = Size(m.business_values)
                 /\ stats.has_ba_approval <=> Size(m.ba_approval) > 0
            [] result.template_type = "UIUX" ->
                 /\ stats.total_figma_links = Len(m.figma_links)
                 /\ stats.total_design_assets = Len(m.design_assets)
                 /\ stats.total_design_decisions = Len(m.design_decisions)
                 /\ stats.assets_needing_upload
                       = Len(m.assets_requiring_separate_upload)
                 /\ stats.has_figma_links <=> stats.total_figma_links > 0
                 /\ stats.has_design_assets <=> stats.total_design_assets > 0
                 /\ stats.has_approval <=> Size(m.approval) > 0
            [] result.template_type = "ENGINEER" ->
                 /\ stats.total_tech_stack = Len(m.tech_stack)
                 /\ stats.total_dev_phases = Len(m.development_estimate)
                 /\ stats.total_arch_docs = Len(m.architecture_documents)
                 /\ stats.has_tech_stack <=> stats.total_tech_stack > 0
                 /\ stats.has_dev_estimate <=> stats.total_dev_phases > 0
                 /\ stats.has_architecture_docs <=> stats.total_arch_docs > 0
                 /\ stats.has_infrastructure <=> Size(m.infrastructure) > 0
                 /\ stats.has_approval <=> Size(m.approval) > 0

C11_StatsMatchLengths == pc = "done" => StatsAgree

C11_Witness ==
    /\ pc = "done"
    /\ result.template_type = "BA"
    /\ result.metadata.parsing_stats.total_us = 1
    /\ result.metadata.parsing_stats.total_bv = 3
    /\ ~result.metadata.parsing_stats.has_ba_approval

\* C12: in every ParseResult of every variant metadata.approval_status is
\* one of APPROVED, REJECTED, PENDING, and it is PENDING whenever the
\* approval sheet is absent, has no status row, or has a status value
\* outside those three.
ApprovalSheet == IF parser.type = "BA" THEN "BA Approval" ELSE "Approval"

\* The status values the approval sheet of the document carries
StatusValues ==
    IF \/ ApprovalSheet \notin Present
       \/ ApprovalSheet \in file.corrupt
       \/ ColumnMissing(file.sheets[ApprovalSheet], 1)
    THEN {}
    ELSE LET df == file.sheets[ApprovalSheet]
         IN {df[i][2].s : i \in {j \in 1..Len(df) :
                                   /\ df[j][1].kind = "str"
                                   /\ df[j][2].kind = "str"
                                   /\ Lower(df[j][1].s) = <<"s","t","a","t","u","s">>}}

KnownStatus ==
    \E v \in StatusValues :
        Upper(Strip(v)) \in {<<"A","P","P","R","O","V","E","D">>,
                             <<"R","E","J","E","C","T","E","D">>,
                             <<"P","E","N","D","I","N","G">>}

C12_ApprovalStatusNormalized ==
    pc = "done" =>
        /\ result.metadata.approval_status
              \in {<<"A","P","P","R","O","V","E","D">>,
                   <<"R","E","J","E","C","T","E","D">>,
                   <<"P","E","N","D","I","N","G">>}
        /\ ~KnownStatus =>
              result.metadata.approval_status = <<"P","E","N","D","I","N","G">>

\* The same statement for the BA variant alone
C12_BAStatusNormalized ==
    (pc = "done" /\ parser.type = "BA") => C12_ApprovalStatusNormalized

(***************************************************************************)
(* Image extraction properties (SpecImages)                                *)
(***************************************************************************)
Returned == pc \in {"done", "done_again"}
WithIds == ~Falsy(request.batch_id) /\ ~Falsy(request.document_id)
Extracting == WithIds /\ store.writable

\* What the two passes of the first extraction produce, the structured-model
\* pass first
Merged ==
    _extract_with_openpyxl(file, request.batch_id, request.document_id, 0)
       \o _extract_with_zip(file, request.batch_id, request.document_id)

DedupKey(d) == <<d.file_size, d.image_type>>

\* The positions of a list that hold the first descriptor of their key
FirstOccurrences(images) ==
    {i \in 1..Len(images) :
        \A j \in 1..(i - 1) : DedupKey(images[j]) # DedupKey(images[i])}

\* C13: the list returned by extract_images_from_excel has at most one
\* descriptor per (file_size, image_type) pair; it keeps, in their order, the
\* first occurrences in the structured-model pass results followed by the
\* raw-archive pass results.
C13_DedupKeepsFirstInOrder ==
    (Returned /\ Extracting) =>
        LET images == result.extracted_images
        IN /\ \A i, j \in 1..Len(images) :
                 i # j => DedupKey(images[i]) # DedupKey(images[j])
           /\ pc = "done" =>
                 /\ Len(images) = Cardinality(FirstOccurrences(Merged))
                 /\ \A a \in 1..Len(images) :
                       images[a] = Merged[CHOOSE i \in FirstOccurrences(Merged) :
                                            Cardinality({j \in FirstOccurrences(Merged) :
                                                            j <= i}) = a]

C13_Witness ==
    /\ pc = "done"
    /\ Extracting
    /\ Len(result.extracted_images) = 2
    /\ Len(Merged) = 4
    /\ result.extracted_images[2] = Merged[3]

\* C14: an image embedded once and recovered by both passes appears exactly
\* once in the list returned by extract_images_from_excel, whatever the name
\* of the sheet that owns it.
C14_BothPassesMergedOnce ==
    (pc = "done" /\ Extracting /\ Len(file.images) = 1
       /\ file.images[1].has_data /\ file.images[1].fails = {}) =>
        Len(result.extracted_images) = 1

\* C15: every descriptor returned by extract_images_from_excel has a
\* non-empty file_path of the form batch_id/document_id/image_type/file_name,
\* and no two descriptors of the document share a file_path.
C15_PathsWellFormedAndUnique ==
    (Returned /\ Extracting) =>
        LET images == result.extracted_images
        IN /\ \A i \in 1..Len(images) :
                 images[i].file_path
                    = [batch_id |-> request.batch_id,
                       document_id |-> request.document_id,
                       image_type |-> images[i].image_type,
                       file_name |-> images[i].file_name]
           /\ \A i, j \in 1..Len(images) :
                 i # j => images[i].file_path # images[j].file_path

\* C16: image storage writes are append-only: across any sequence of image
\* extractions, also of the same document with the same batch id and
\* document id, every write creates a new file and none that exists is
\* written over.
C16_WritesAppendOnly == store.overwritten = {}

\* C17: when process_file is called without a batch id or without a document
\* id, image extraction is skipped: extracted_images is empty,
\* parsing_stats.total_images is 0, no file is written to the store, and
\* nothing is appended to errors on that account.
ImageErrors(errors) == Len(SelectSeq(errors, LAMBDA e : e = ImageError))

C17_NoIdsSkipsImages ==
    [][(/\ pc \in {"created", "done"}
        /\ pc' \in {"done", "done_again"}
        /\ \/ request'.batch_id \in {None, ""}
           \/ request'.document_id \in {None, ""}) =>
          /\ result'.extracted_images = << >>
          /\ result'.metadata.parsing_stats.total_images = 0
          /\ store' = store
          /\ ImageErrors(result'.errors) = ImageErrors(parser.errors)]_vars

C17_Witness ==
    /\ pc = "done_again"
    /\ request.batch_id = "B1"
    /\ request.document_id = ""
    /\ file.images # << >>
    /\ store.files # {}
    /\ result.extracted_images = << >>

\* C18: a failure while processing one embedded image omits only that image:
\* every other image of the same pass and of the other pass is still
\* extracted, the parse still returns its ParseResult, and a failure to
\* decode pixel dimensions leaves width, height and mime null without
\* dropping the image.
SomeImageFails ==
    \E i \in 1..Len(file.images) :
        \/ ~file.images[i].has_data
        \/ file.images[i].fails # {}
        \/ ~file.images[i].decodable

\* The descriptors an image must be represented by: one per pass that
\* processes it without throwing
SurvivingKeys ==
    {<<file.images[i].size, _determine_image_type(file.images[i].sheet)>> :
        i \in {j \in 1..Len(file.images) :
                 file.images[j].has_data /\ "openpyxl" \notin file.images[j].fails}}
    \cup
    {<<file.images[i].size, _determine_image_type_from_path(file.images[i].media)>> :
        i \in {j \in 1..Len(file.images) : "zip" \notin file.images[j].fails}}

C18_ImageFailureIsolated ==
    (pc \in {"done", "done_again", "process_raised"} /\ Extracting /\ SomeImageFails) =>
        /\ pc # "process_raised"
        /\ {DedupKey(result.extracted_images[i]) : i \in 1..Len(result.extracted_images)}
              = SurvivingKeys
        /\ \A i \in 1..Len(result.extracted_images) :
              LET d == result.extracted_images[i]
                  undecodable == \A j \in 1..Len(file.images) :
                                    file.images[j].size = d.file_size
                                       => ~file.images[j].decodable
              IN undecodable => /\ d.width = PyNone
                                /\ d.height = PyNone
                                /\ d.mime_type = PyNone

\* The same statement on the documents whose development estimate has no
\* duration_days column
C18_IsolatedWithoutDurationDays ==
    (\A n \in Present : file.sheets[n] # DurationDaysGrid) => C18_ImageFailureIsolated

(***************************************************************************)
(* Template validation (SpecFactory)                                       *)
(***************************************************************************)
\* C19: validate_template of a variant answers true exactly when at least
\* half of the variant's expected sheet names are present in the document,
\* that is at least 3 of the 5 of BA and UIUX and at least 3 of the 6 of
\* ENGINEER, whichever template detection would select for the document.
C19_ValidHalfOfExpectedSheets ==
    pc = "validated" =>
        \A t \in DOMAIN result \cap TemplateTypes :
            /\ Cardinality(Expected(t)) = IF t = "ENGINEER" THEN 6 ELSE 5
            /\ result[t].valid <=> Cardinality(Expected(t) \cap Present) >= 3

\* A document with exactly three of the six ENGINEER sheets that detection
\* assigns to another template is valid for ENGINEER
C19_Witness ==
    /\ pc = "validated"
    /\ request.template_type = "ENGINEER"
    /\ Cardinality(Expected("ENGINEER") \cap Present) = 3
    /\ detect_template_type(file) # "ENGINEER"
    /\ result["ENGINEER"].valid

(***************************************************************************)
(* Cell values (SpecClean)                                                 *)
(***************************************************************************)
RawValue == file.sheets["Notes"][1][1]

\* C20: clean_value is total and never raises: it returns '-' for an absent
\* value, an empty text and the text 'nan' in any letter case, the
\* YYYY-MM-DD form for a date, and otherwise the string form of the value
\* without its leading and trailing whitespace.
C20_CleanValueTotal ==
    pc = "cleaned" =>
        /\ raised = NoException
        /\ LET v == RawValue
               out == result.str
               nan_text == /\ v.kind = "str"
                           /\ Len(v.s) = 3
                           /\ v.s[1] \in {"n", "N"}
                           /\ v.s[2] \in {"a", "A"}
                           /\ v.s[3] \in {"n", "N"}
           IN CASE v.kind \in {"nan", "none", "nat"} -> out = <<"-">>
                [] v.kind = "str" /\ (v.s = << >> \/ nan_text) -> out = <<"-">>
                [] v.kind = "datetime" ->
                      /\ Len(out) = 10
                      /\ out[5] = "-" /\ out[8] = "-"
                      /\ ToInt(SubSeq(out, 1, 4)) = v.year
                      /\ ToInt(SubSeq(out, 6, 7)) = v.month
                      /\ ToInt(SubSeq(out, 9, 10)) = v.day
                [] v.kind = "int" ->
                      ToInt(SelectSeq(out, IsDigit)) = (IF v.n < 0 THEN 0 - v.n ELSE v.n)
                      /\ (out[1] = "-" <=> v.n < 0)
                [] OTHER ->
                      /\ out = << >> \/ (out[1] \notin Whitespace /\ out[Len(out)] \notin Whitespace)
                      /\ \E i \in 0..Len(v.s), j \in 0..Len(v.s) :
                            /\ v.s = SubSeq(v.s, 1, i) \o out \o SubSeq(v.s, Len(v.s) - j + 1, Len(v.s))
                            /\ \A k \in 1..i : v.s[k] \in Whitespace
                            /\ \A k \in (Len(v.s) - j + 1)..Len(v.s) : v.s[k] \in Whitespace

\* The text 'NaN' has been cleaned to '-'
C20_Witness ==
    /\ pc = "cleaned"
    /\ RawValue.kind = "str"
    /\ RawValue.s = <<"N", "a", "N">>
    /\ result = PyStr(Dash)

\* C21: clean_value is idempotent on its own outputs: cleaning a cleaned
\* value gives the same text again, also for a text made only of whitespace
\* and for 'nan' surrounded by whitespace.
C21_CleanValueIdempotent ==
    [][(pc = "cleaned" /\ pc' = "cleaned_again") => result' = result]_vars

\* The same statement on the raw values whose cleaned text is neither empty
\* nor 'nan' in some letter case
C21_IdempotentOffEmptyAndNan ==
    [][(/\ pc = "cleaned"
        /\ pc' = "cleaned_again"
        /\ result.str # << >>
        /\ Lower(result.str) # <<"n","a","n">>) => result' = result]_vars

(***************************************************************************)
(* Sheet readers (SpecSheets)                                              *)
(***************************************************************************)
\* The frame of the sheet being read, when the sheet is there and readable
SheetRead == request.template_type \in Present /\ file.corrupt = {}
Frame == file.sheets[request.template_type]

\* A row of a key-value sheet is kept when neither cell is blank and the
\* key is no skip-header in any letter case
KeptRows ==
    {i \in 1..Len(Frame) :
        /\ Frame[i][1] # NaN
        /\ Frame[i][2] # NaN
        /\ Lower(Frame[i][1].s) \notin {<<"f","i","e","l","d">>, <<"m","e","t","r","i","c">>,
                                         <<"s","u","c","c","e","s","s"," ","m","e","t","r","i","c","s">>}}

\* The key of a kept row: lower case, '_' for a space and a slash, colons
\* and parentheses left out
NormalKey(key) ==
    LET norm[i \in 0..Len(key)] ==
            IF i = 0 THEN << >>
            ELSE norm[i - 1] \o
                 (CASE key[i] \in {" ", "/"} -> <<"_">>
                    [] key[i] \in {":", "(", ")"} -> << >>
                    [] OTHER -> <<LowerChar(key[i])>>)
    IN norm[Len(key)]

KeyValueEntries ==
    /\ \A i \in KeptRows :
          /\ NormalKey(Frame[i][1].s) \in DOMAIN result.value
          /\ result.value[NormalKey(Frame[i][1].s)] = PyStr(clean_value(Frame[i][2]))
    /\ \A k \in DOMAIN result.value : \E i \in KeptRows : NormalKey(Frame[i][1].s) = k
    /\ Cardinality(DOMAIN result.value) = Cardinality(KeptRows)

\* C22: parse_key_value_sheet returns exactly one entry per kept row, under
\* the normalised key of the row and holding clean_value of its raw value;
\* rows with a blank key or value or with a skip-header key are dropped.
C22_OneEntryPerKeptRow ==
    (pc = "read_key_value" /\ SheetRead) => KeyValueEntries

\* The same statement on the sheets whose kept rows have different
\* normalised keys
C22_OnDistinctKeys ==
    (/\ pc = "read_key_value"
     /\ SheetRead
     /\ \A i, j \in KeptRows :
           NormalKey(Frame[i][1].s) = NormalKey(Frame[j][1].s) => i = j) => KeyValueEntries

\* The label of column j of a frame read with its first row as header
ColumnLabel(j) ==
    IF Frame[1][j] = NaN
    THEN <<"U","n","n","a","m","e","d",":"," ">> \o Decimal(j - 1)
    ELSE Frame[1][j].s

\* C23: parse_tabular_sheet returns one record per data row below the header
\* row, in row order, each mapping every header label to clean_value of the
\* row's cell; it returns the empty sequence without an error when the sheet
\* is absent, and the empty sequence with one recorded error when reading
\* fails.
C23_OneRecordPerDataRow ==
    (pc = "read_tabular" /\ request.template_type = "User Story") =>
        /\ result.raised = NoException
        /\ CASE "User Story" \notin Present ->
                    result.value = << >> /\ result.errors = << >>
             [] file.corrupt # {} ->
                    result.value = << >> /\ Len(result.errors) = 1
             [] Frame = << >> ->
                    result.value = << >> /\ result.errors = << >>
             [] OTHER ->
                    /\ result.errors = << >>
                    /\ Len(result.value) = Len(Frame) - 1
                    /\ \A i \in 1..Len(result.value) :
                          /\ DOMAIN result.value[i] = {ColumnLabel(j) : j \in 1..Len(Frame[1])}
                          /\ \A j \in 1..Len(Frame[1]) :
                                result.value[i][ColumnLabel(j)]
                                   = PyStr(clean_value(Frame[i + 1][j]))

\* A User Story sheet with an unlabelled first column and two data rows, the
\* second of which differs from the first, has been read
C23_Witness ==
    /\ pc = "read_tabular"
    /\ request.template_type = "User Story"
    /\ SheetRead
    /\ Len(Frame) = 3
    /\ Frame[1][1] = NaN
    /\ Len(result.value) = 2
    /\ result.value[1] # result.value[2]

\* The text of the duration cell of data row i as the reader sees it
DurationText(i) == clean_value(Frame[i + 1][2])

\* What a duration text amounts to: 7 N for 'N weeks', N for 'N days', 30 N
\* for 'N months', 0 without a unit or without a number, never less than 0
DaysAsStated(text, days) ==
    /\ days >= 0
    /\ \A N \in 0..99 :
          /\ text = Decimal(N) \o <<" ","w","e","e","k","s">> => days = 7 * N
          /\ text = Decimal(N) \o <<" ","d","a","y","s">> => days = N
          /\ text = Decimal(N) \o <<" ","m","o","n","t","h","s">> => days = 30 * N
    /\ (\A i \in 1..Len(text) : ~IsDigit(text[i])) => days = 0
    /\ (\A unit \in {<<"w","e","e","k">>, <<"d","a","y">>, <<"m","o","n","t","h">>} :
           ~Contains(Lower(text), unit)) => days = 0

\* C24: _parse_duration_to_days gives a non-negative number of days, 7 N
\* for N weeks, N for N days, 30 N for N months and 0 for a text without a
\* recognizable unit or without a number, and parsing_stats.total_dev_days
\* is the sum of duration_days over the Development Estimate rows.
C24_DurationDaysAndTotal ==
    /\ (/\ pc = "read_tabular"
        /\ request.template_type = "Development Estimate"
        /\ SheetRead
        /\ Frame[1][2].s = <<"d","u","r","a","t","i","o","n">>) =>
            \A i \in 1..Len(result.value) :
                /\ <<"d","u","r","a","t","i","o","n","_","d","a","y","s">> \in DOMAIN result.value[i]
                /\ IsInt(result.value[i][<<"d","u","r","a","t","i","o","n","_","d","a","y","s">>])
                /\ DaysAsStated(DurationText(i),
                                result.value[i][<<"d","u","r","a","t","i","o","n","_","d","a","y","s">>].int)
    /\ pc = "done" =>
            LET rows == result.metadata.development_estimate
                days(i) == IF <<"d","u","r","a","t","i","o","n","_","d","a","y","s">> \in DOMAIN rows[i]
                           THEN rows[i][<<"d","u","r","a","t","i","o","n","_","d","a","y","s">>].int
                           ELSE 0
                total[i \in 0..Len(rows)] == IF i = 0 THEN 0 ELSE total[i - 1] + days(i)
            IN result.metadata.parsing_stats.total_dev_days = total[Len(rows)]

\* A Development Estimate of '3 weeks' and '2 months' has been parsed to a
\* total of 81 days
C24_Witness ==
    /\ pc = "done"
    /\ "Development Estimate" \in Present
    /\ Len(file.sheets["Development Estimate"]) = 3
    /\ file.sheets["Development Estimate"][2][2] = Text(<<"3"," ","w","e","e","k","s">>)
    /\ file.sheets["Development Estimate"][3][2] = Text(<<"2"," ","m","o","n","t","h","s">>)
    /\ result.metadata.parsing_stats.total_dev_days = 81

\* The categories in the order they are tried, each with its keywords
CategoryKeywords ==
    <<[category |-> <<"f","r","o","n","t","e","n","d">>, keywords |-> {<<"f","r","o","n","t","e","n","d">>, <<"u","i">>}],
      [category |-> <<"b","a","c","k","e","n","d">>, keywords |-> {<<"b","a","c","k","e","n","d">>, <<"a","p","i">>}],
      [category |-> <<"d","a","t","a","b","a","s","e">>, keywords |-> {<<"d","a","t","a","b","a","s","e">>, <<"d","a","t","a">>}],
      [category |-> <<"i","n","f","r","a","s","t","r","u","c","t","u","r","e">>, keywords |-> {<<"i","n","f","r","a","s","t","r","u","c","t","u","r","e">>, <<"d","e","v","o","p","s">>}],
      [category |-> <<"t","e","s","t","i","n","g">>, keywords |-> {<<"t","e","s","t","i","n","g">>, <<"q","a">>}]>>

\* The first category one of whose keywords occurs in the lower-cased layer
CategoryAsStated(layer) ==
    LET hits == {k \in 1..Len(CategoryKeywords) :
                    \E keyword \in CategoryKeywords[k].keywords :
                        Contains(Lower(layer), keyword)}
    IN IF hits = {} THEN <<"o","t","h","e","r">>
       ELSE CategoryKeywords[CHOOSE k \in hits : \A h \in hits : k <= h].category

\* C27: _categorize_tech_layer returns one of frontend, backend, database,
\* infrastructure, testing, other: the first category in that order with a
\* keyword occurring in the lower-cased layer, other when there is none; a
\* Tech Stack row gets a category only when the sheet has a 'layer' column.
C27_CategoryByFirstKeyword ==
    (pc = "read_tabular" /\ request.template_type = "Tech Stack" /\ SheetRead) =>
        \A i \in 1..Len(result.value) :
            IF Frame[1][1].s = <<"l","a","y","e","r">>
            THEN /\ <<"c","a","t","e","g","o","r","y">> \in DOMAIN result.value[i]
                 /\ result.value[i][<<"c","a","t","e","g","o","r","y">>].str = CategoryAsStated(clean_value(Frame[i + 1][1]))
                 /\ result.value[i][<<"c","a","t","e","g","o","r","y">>].str \in
                       {CategoryKeywords[k].category : k \in 1..Len(CategoryKeywords)}
                       \cup {<<"o","t","h","e","r">>}
            ELSE <<"c","a","t","e","g","o","r","y">> \notin DOMAIN result.value[i]

\* A layer naming both a frontend and a backend keyword is frontend, and a
\* layer naming none is other
C27_Witness ==
    /\ pc = "read_tabular"
    /\ request.template_type = "Tech Stack"
    /\ SheetRead
    /\ Len(result.value) = 2
    /\ Frame[1][1].s = <<"l","a","y","e","r">>
    /\ Frame[2][1] = Text(<<"U","I"," ","A","P","I">>)
    /\ Frame[3][1] = Text(<<"O","t","h","e","r">>)
    /\ result.value[1][<<"c","a","t","e","g","o","r","y">>].str = <<"f","r","o","n","t","e","n","d">>
    /\ result.value[2][<<"c","a","t","e","g","o","r","y">>].str = <<"o","t","h","e","r">>

(***************************************************************************)
(* Results across calls on one parser instance (SpecImages)                *)
(***************************************************************************)
\* C25: a result is immutable once process_file has returned it: no later
\* operation on the same parser instance changes its contents, in particular
\* its errors list and its extracted_images list.
C25_ReturnedResultImmutable ==
    \A i \in 1..Len(returned) : returned[i].now = returned[i].as_returned

ImagesAgree ==
    LET m == result.metadata
    IN /\ Len(m.images) = m.parsing_stats.total_images
       /\ m.parsing_stats.total_images = Len(result.extracted_images)
       /\ \A i \in 1..Len(m.images) :
             /\ i <= Len(result.extracted_images)
             /\ m.images[i].file_path = result.extracted_images[i].file_path

\* C26: after any sequence of process_file calls on one parser instance the
\* result of each call has len(metadata.images) = parsing_stats.total_images
\* = len(extracted_images), and metadata.images describes exactly the images
\* that call extracted.
C26_ImageCountsAgree ==
    pc \in {"done", "done_again"} => ImagesAgree

\* The same statement for the first call on a parser instance
C26_AgreeOnFirstCall ==
    pc = "done" => ImagesAgree

(***************************************************************************)
(* Detection of a complete BA document (SpecFactory)                       *)
(***************************************************************************)
\* C28: with auto-detection a document holding all five BA expected sheets
\* is classified BA if and only if it holds at most one UIUX expected sheet
\* and at most one ENGINEER expected sheet, the shared 'Approval' sheet
\* counting once for each.
C28_CompleteBAUnlessTwoOfAnother ==
    (Detected /\ file.readable /\ Expected("BA") \subseteq Present) =>
        (detected = "BA" <=>
            /\ Cardinality(Present \cap Expected("UIUX")) <= 1
            /\ Cardinality(Present \cap Expected("ENGINEER")) <= 1)

\* A complete BA document with the shared 'Approval' sheet and nothing else
\* of the other variants is BA
C28_Witness ==
    /\ Detected
    /\ Expected("BA") \subseteq Present
    /\ "Approval" \in Present
    /\ Cardinality(Present \cap Expected("UIUX")) = 1
    /\ Cardinality(Present \cap Expected("ENGINEER")) = 1
    /\ detected = "BA"

\* What a finished validation must hold: an unknown tag maps to valid = False
\* with the 'Unknown template type' error, and a document that cannot be
\* opened gives valid = False with an error for the named variant or for
\* each of the three
ValidationAnswers ==
    /\ pc # "validate_raised"
    /\ pc = "validated" =>
          /\ request.template_type \notin TemplateTypes \cup {None, ""} =>
                /\ DOMAIN result = {request.template_type}
                /\ result[request.template_type] =
                      [valid |-> FALSE, error |-> "Unknown template type"]
          /\ ~file.readable =>
                /\ request.template_type \in {None, ""} => DOMAIN result = TemplateTypes
                /\ \A t \in DOMAIN result :
                      /\ result[t].valid = FALSE
                      /\ "error" \in DOMAIN result[t]

\* C29: ParserFactory.validate_template never raises: an explicit unknown
\* tag is answered with valid = False and an 'Unknown template type' error,
\* and a document that cannot be opened with valid = False and an error
\* message for the named variant, or for each of the three variants when
\* none is named.
C29_ValidateNeverRaises == ValidationAnswers

\* The same statement for the calls that name a template type
C29_NamedTypeNeverRaises ==
    request.template_type \notin {None, ""} => ValidationAnswers

(***************************************************************************)
(* Background tasks (SpecUpload)                                           *)
(***************************************************************************)
TaskDone == pc \in {"background_done", "with_template_done"}

\* Parsing the uploaded document raises: create_parser does, or process_file
\* of the parser it returns does
ParsingRaises ==
    LET created == create_parser(file, IF request.template_type \in {None, ""}
                                       THEN None ELSE request.template_type)
    IN \/ created.raised # NoException
       \/ process_file(created.parser, file, "B1", "B1",
                       [files |-> {}, overwritten |-> {}, writable |-> TRUE], 0).raised
             # NoException

BatchOutcome ==
    /\ batch.status \in {"COMPLETED", "FAILED"}
    /\ (~ParsingRaises /\ batch.db_ok) =>
          /\ batch.status = "COMPLETED"
          /\ batch.success_count = 1
          /\ result.errors # << >> => batch.error_log = result.errors
    /\ batch.status = "FAILED" => (ParsingRaises \/ ~batch.db_ok)

\* C30: in both background tasks a batch that starts in PROCESSING ends in
\* exactly one of COMPLETED and FAILED; it ends COMPLETED with success_count
\* 1 whenever parsing returns a result, also one with errors, which go to
\* error_log; it ends FAILED only when parsing or persistence raises.
C30_BatchOutcome ==
    TaskDone => BatchOutcome

\* The same statement for process_upload_background_with_template alone
C30_WithTemplateOutcome ==
    pc = "with_template_done" => BatchOutcome

====
